---- MODULE Spec2Model ----
(***************************************************************************)
(* Verification model of the libretro emulator frontend of tasbot:         *)
(*   - StateCache (emulator-libretro.cc): Resize / Remember / GetKnown /   *)
(*     MaybeGC, the sequence-number eviction cache;                        *)
(*   - EmulatorLibretro (emulator-libretro.cc): Initialize / Shutdown /    *)
(*     Step / CachingStep / SaveUncompressed / LoadUncompressed /          *)
(*     SaveEx / LoadEx / ResetCache;                                       *)
(*   - LibretroWrapper (libretro-wrapper.cc): LoadCore / UnloadCore /      *)
(*     LoadROM / UnloadROM / Run / Reset / SaveState / LoadState and the   *)
(*     input-state callback;                                               *)
(*   - PlayFun (playfun-nobacktrack-libretro.cc): the constructor, Greedy, *)
(*     SelectMotifsToTry / UpdateMotifScore, RecordFutureScore /           *)
(*     AdaptFutureDepths, AvoidBadFutures / SeekGoodFutures;               *)
(*   - Objective (objective.cc): EnumeratePartial / EnumeratePartialRec /  *)
(*     EnumerateFullAll / EnumerateFullAllWithDecreasing.                  *)
(* Byte vectors are sequences of naturals in 0..255.                       *)
(***************************************************************************)
EXTENDS Integers, Sequences, FiniteSets, TLC

VARIABLES
  table,            \* StateCache::table   : key <<input, start>> -> [seq, post]
  limit,            \* StateCache::limit
  slop,             \* StateCache::slop
  count,            \* StateCache::count
  next_seq,         \* StateCache::next_seq
  hits,             \* StateCache::hits
  misses,           \* StateCache::misses
  g_cache,          \* g_cache != nullptr
  g_wrapper,        \* g_wrapper != nullptr
  g_initialized,    \* g_initialized
  core,             \* state of the loaded core (meaningful while g_wrapper)
  input_state,      \* Impl::input_state[2]
  g_frame_rgba,     \* g_frame_rgba
  g_audio_samples,  \* g_audio_samples
  saved,            \* the last blob produced by SaveEx, with its basis
  usaved,           \* the last vector produced by SaveUncompressed
  lastOp,           \* the operation that produced the current state
  halted,           \* "no", "abort" (abort() called) or "crash" (UB trapped)
  core_handle,      \* per wrapper: Impl::core_handle != nullptr
  rom_loaded,       \* per wrapper: Impl::rom_loaded
  dl_open,          \* per wrapper: shared objects dlopen'ed and not dlclose'd
  cores,            \* per wrapper: state of the core behind core_handle
  g_current_impl,   \* the Impl the callback thunks see (0 is nullptr)
  solution,         \* the input movie handed to PlayFun's constructor
  motifvec,         \* PlayFun::motifvec
  objectives,       \* PlayFun::objectives and use_magnitude_scoring
  rc,               \* PlayFun::rc, the state of the byte generator
  rnd,              \* state of the generators behind Shuffle and Motifs
  movie,            \* PlayFun::movie
  recent_futures,   \* PlayFun::recent_futures
  avoid_depths,     \* PlayFun::avoid_depths
  seek_depths,      \* PlayFun::seek_depths
  motif_scores,     \* PlayFun::motif_scores
  motif_uses,       \* PlayFun::motif_uses
  greedy,           \* the locals of Greedy and of the look-ahead it calls
  pc,               \* position of the search program
  replayed,         \* history: the frontend that one plain Step per byte
                    \* of movie leads to from the state after Initialize
  memories          \* Objective::memories

cacheVars == <<table, limit, slop, count, next_seq, hits, misses>>
efVars    == <<g_cache, g_wrapper, g_initialized, core, input_state,
               g_frame_rgba, g_audio_samples, saved, usaved>>
wrapVars  == <<core_handle, rom_loaded, dl_open, cores, g_current_impl>>
playVars  == <<solution, motifvec, objectives, rc, rnd, movie,
               recent_futures, avoid_depths, seek_depths, motif_scores,
               motif_uses, greedy, pc, replayed>>
vars      == <<table, limit, slop, count, next_seq, hits, misses,
               g_cache, g_wrapper, g_initialized, core, input_state,
               g_frame_rgba, g_audio_samples, saved, usaved, lastOp, halted,
               core_handle, rom_loaded, dl_open, cores, g_current_impl,
               solution, motifvec, objectives, rc, rnd, movie,
               recent_futures, avoid_depths, seek_depths, motif_scores,
               motif_uses, greedy, pc, replayed, memories>>

----------------------------------------------------------------------------
(* Bounds of the model *)

MaxLimit  == 1      \* largest limit and largest slop passed to Resize
MaxSeq    == 3      \* cap on next_seq and on the number of lookups
RamLen    == 1      \* bytes of system RAM of the modelled core
CoreMod   == 2      \* period of the hidden register of the modelled core
CanonDim  == 2      \* side of the canonical frame, scaled down from 256
NUMFRAMES == 102    \* frames Greedy plays, scaled down from 10000
MaxPicks  == 2      \* motifs of a look-ahead rollout that are modelled
MaxRounds == 2      \* rounds of selection, and of tracking, that are followed

(* Program constants *)
DefaultLimit == 0
DefaultSlop  == 10000

Byte   == 0..255
Wrappers == {1, 2}  \* the LibretroWrapper instances of the process
Inputs == {0, 1}

Min(a, b) == IF a < b THEN a ELSE b

\* The element of a set of one element.  {F(v) : v \in {x}} is the set of
\* the one value F(x), written so where x is worked out once and used in
\* several places of F.
Only(S) == CHOOSE v \in S : TRUE

StateSize == RamLen + 1

Zeros(n) == [i \in 1..n |-> 0]

----------------------------------------------------------------------------
(* StateCache *)

EmptyTable == [k \in {} |-> 0]

Restrict(t, K) == [k \in K |-> t[k]]

\* The serialized states the cache API is driven with when used directly.
ApiStates == {Zeros(StateSize), [Zeros(StateSize) EXCEPT ![1] = 1]}

\* KeyEquals comparing only the pre-state and forgetting the input byte.
KeyEqualsIgnoringInput(l, r) == l[2] = r[2]

KeyEquals(l, r) == l[1] = r[1] /\ l[2] = r[2]

\* table.find(key): the keys of the table equal to key (at most one).
Find(t, key) == {k \in DOMAIN t : KeyEquals(k, key)}

\* table.emplace(key, value): no effect when an equal key is present.
Emplace(t, key, value) ==
  IF Find(t, key) # {} THEN t
  ELSE [k \in DOMAIN t \cup {key} |-> IF k = key THEN value ELSE t[k]]

RECURSIVE SortSet(_)
\* std::sort of the collected sequence numbers (ascending).
SortSet(S) ==
  IF S = {} THEN <<>>
  ELSE LET m == CHOOSE x \in S : \A y \in S : x <= y
       IN  <<m>> \o SortSet(S \ {m})

\* The erase loop of MaybeGC for a cutoff min_seq.
Evict(t, c, min_seq) ==
  LET keep == {k \in DOMAIN t : ~(t[k].seq < min_seq)}
  IN  [table |-> Restrict(t, keep),
       count |-> c - Cardinality(DOMAIN t \ keep)]

\* MaybeGC on table t with counter c.  The result is the set of outcomes:
\* reading seqs[num_remove] past the end of seqs is undefined behaviour, so
\* the cutoff is then any value, or the access traps.
MaybeGC(t, c, lim, sl, ns) ==
  IF c <= lim + sl
  THEN {[table |-> t, count |-> c, gc |-> FALSE, oob |-> FALSE, crash |-> FALSE]}
  ELSE LET seqs       == SortSet({t[k].seq : k \in DOMAIN t})
           num_remove == c - lim
       IN  IF num_remove < Len(seqs)
           THEN LET e == Evict(t, c, seqs[num_remove + 1])
                IN  {[table |-> e.table, count |-> e.count, gc |-> TRUE,
                      oob |-> FALSE, crash |-> FALSE]}
           ELSE {[table |-> Evict(t, c, g).table,
                  count |-> Evict(t, c, g).count, gc |-> TRUE,
                  oob |-> TRUE, crash |-> FALSE] : g \in 0..ns}
                \cup
                {[table |-> t, count |-> c, gc |-> TRUE,
                  oob |-> TRUE, crash |-> TRUE]}

\* Remember(input, start, result): the set of resulting cache states.
Remember(t, c, lim, sl, ns, input, start, result) ==
  LET t1 == Emplace(t, <<input, start>>, [seq |-> ns, post |-> result])
  IN  {[table |-> o.table, count |-> o.count, next_seq |-> ns + 1,
        gc |-> o.gc, oob |-> o.oob, crash |-> o.crash]
        : o \in MaybeGC(t1, c + 1, lim, sl, ns + 1)}

\* The payload vectors the entries of table t point to: the copy of the
\* start state in the key and the copy of the result in the value.
Payloads(t) == 2 * Cardinality(DOMAIN t)

\* The payload vectors deleted when a StateCache whose table is t is
\* destroyed: the struct declares no destructor, and the destructor of the
\* map destroys the pointers, not what they point to.
DeletedByDestructor(t) == 0

\* GetKnown that leaves the sequence number of the entry it finds alone.
GetKnownUnstamped(t, ns, h, m, input, start) ==
  LET f == Find(t, <<input, start>>)
  IN  IF f = {}
      THEN [table |-> t, next_seq |-> ns, hits |-> h, misses |-> m + 1,
            found |-> FALSE, ret |-> <<>>]
      ELSE [table |-> t, next_seq |-> ns + 1, hits |-> h + 1, misses |-> m,
            found |-> TRUE, ret |-> t[CHOOSE k \in f : TRUE].post]

\* GetKnown(input, start).
GetKnown(t, ns, h, m, input, start) ==
  LET f == Find(t, <<input, start>>)
  IN  IF f = {}
      THEN [table |-> t, next_seq |-> ns, hits |-> h, misses |-> m + 1,
            found |-> FALSE, ret |-> <<>>]
      ELSE LET k == CHOOSE k \in f : TRUE
           IN  [table |-> [t EXCEPT ![k].seq = ns], next_seq |-> ns + 1,
                hits |-> h + 1, misses |-> m,
                found |-> TRUE, ret |-> t[k].post]

----------------------------------------------------------------------------
(* The core behind the plugin ABI: a deterministic machine whose whole      *)
(* state is its system RAM plus one hidden register, and whose serialized   *)
(* image is the RAM bytes followed by the register.                         *)

PowerOn == [ram |-> Zeros(RamLen), reg |-> 0]

\* retro_run with the port-0 mask b answered by the input-state callback.
RetroRun(c, b) ==
  [ram |-> [i \in 1..RamLen |-> (c.ram[1] + c.reg + b + i - 1) % 2],
   reg |-> (c.reg + 1) % CoreMod]

\* retro_serialize into a buffer of at least StateSize bytes.
RetroSerialize(c) == c.ram \o <<c.reg>>

\* retro_unserialize(data, size): refuses an image of the wrong size.
RetroUnserialize(c, buf) ==
  IF Len(buf) = StateSize
  THEN [ok |-> TRUE,
        core |-> [ram |-> SubSeq(buf, 1, RamLen), reg |-> buf[StateSize]]]
  ELSE [ok |-> FALSE, core |-> c]

\* The frame handed to the video-refresh callback during retro_run:
\* XRGB8888, as high as the canonical frame or one row less, depending on
\* the state of the core (a core may change its geometry between frames).
CoreVideo(c) ==
  LET h == CanonDim - (c.reg % 2)
  IN  [width |-> CanonDim, height |-> h, pitch |-> 4 * CanonDim,
       data  |-> [i \in 1..(h * 4 * CanonDim) |->
                    (c.reg + i) % 256]]

\* The interleaved stereo samples delivered during retro_run.
CoreAudio(c) ==
  IF c.reg = 0 THEN <<>> ELSE <<c.ram[1] + 1, 0 - c.reg>>

----------------------------------------------------------------------------
(* LibretroWrapper with a core and a ROM loaded *)

GetStateSize == StateSize

\* SaveState(buffer): the buffer afterwards and the returned flag.
SaveState(c, buffer) ==
  IF Len(buffer) < GetStateSize
  THEN [ok |-> FALSE, buf |-> buffer]
  ELSE [ok |-> TRUE,
        buf |-> RetroSerialize(c) \o SubSeq(buffer, GetStateSize + 1, Len(buffer))]

LoadState(c, buffer) == RetroUnserialize(c, buffer)

GetRAM(c) == c.ram

----------------------------------------------------------------------------
(* EmulatorLibretro: video and audio sinks registered by Initialize *)

\* g_frame_rgba.resize(n, 0): keeps the old prefix, pads with zeros.
ResizeVec(v, n) == [i \in 1..n |-> IF i <= Len(v) THEN v[i] ELSE 0]

\* The video callback: convert the core's frame into the canonical image.
\* Offsets are 0-based as in the source; sequences are 1-based.
VideoCallback(frame, fb) ==
  LET base == ResizeVec(frame, CanonDim * CanonDim * 4)
      Src(y, x) == y * fb.pitch + x * 4
      InWin(y, x) == /\ y < Min(fb.height, CanonDim)
                     /\ x < Min(fb.width, CanonDim)
                     /\ Src(y, x) + 3 < Len(fb.data)
  IN  [i \in 1..(CanonDim * CanonDim * 4) |->
         LET d == i - 1
             y == d \div (CanonDim * 4)
             x == (d % (CanonDim * 4)) \div 4
             ch == d % 4
         IN  IF InWin(y, x)
             THEN CASE ch = 0 -> fb.data[Src(y, x) + 2 + 1]
                    [] ch = 1 -> fb.data[Src(y, x) + 1 + 1]
                    [] ch = 2 -> fb.data[Src(y, x) + 0 + 1]
                    [] OTHER  -> 255
             ELSE base[i]]

\* C++ integer division (truncation toward zero) by 2.
TruncHalf(v) == IF v >= 0 THEN v \div 2 ELSE 0 - ((0 - v) \div 2)

\* The audio callback: stereo pairs to mono.
AudioCallback(samples) ==
  [i \in 1..(Len(samples) \div 2) |->
     TruncHalf(samples[2 * i - 1] + samples[2 * i])]

\* LibretroWrapper::Run followed by the sinks: the new core state, frame
\* and audio.
Run(c, is, frame, audio) ==
  Only({[core  |-> c1,
         frame |-> VideoCallback(frame, fb),
         audio |-> IF ab # <<>> THEN AudioCallback(ab) ELSE audio] :
          c1 \in {RetroRun(c, is[1])},
          fb \in {CoreVideo(RetroRun(c, is[1]))},
          ab \in {CoreAudio(RetroRun(c, is[1]))}})

\* SetInput with the two ports exchanged.
SetInputOtherPort(is, port, input) ==
  IF port < 2 THEN [is EXCEPT ![2 - port] = input] ELSE is

\* LibretroWrapper::SetInput(port, input); ports are 0-based.
SetInput(is, port, input) ==
  IF port < 2 THEN [is EXCEPT ![port + 1] = input] ELSE is

\* EmulatorLibretro::Step(inputs).
Step(w, c, is, frame, audio, inputs) ==
  IF ~w
  THEN [core |-> c, input_state |-> is, frame |-> frame, audio |-> audio]
  ELSE Only({[core |-> r.core, input_state |-> SetInput(is, 0, inputs),
              frame |-> r.frame, audio |-> r.audio] :
               r \in {Run(c, SetInput(is, 0, inputs), frame, audio)}})

\* EmulatorLibretro::GetMemory.
GetMemory(w, c) == IF ~w THEN <<>> ELSE GetRAM(c)

\* EmulatorLibretro::GetImage: a copy of g_frame_rgba.
GetImage(frame) == frame

\* EmulatorLibretro::GetSound: a copy of g_audio_samples.
GetSound(audio) == audio

RECURSIVE CityHash64(_)
\* A 64-bit hash of a byte vector (a positional fold stands in for the
\* city hash, which lies outside the repository).
CityHash64(bytes) ==
  IF bytes = <<>> THEN 1
  ELSE (31 * CityHash64(Tail(bytes)) + Head(bytes) + 7) % (2 ^ 64)

\* EmulatorLibretro::RamChecksum.
RamChecksum(w, c) ==
  IF ~w THEN 0
  ELSE IF GetRAM(c) = <<>> THEN 0 ELSE CityHash64(GetRAM(c))

\* EmulatorLibretro::SaveUncompressed into a fresh vector.
SaveUncompressed(w, c) ==
  IF ~w THEN <<>> ELSE SaveState(c, ResizeVec(<<>>, GetStateSize)).buf

\* LoadUncompressed with its emptiness test inverted.
LoadUncompressedInverted(w, c, in) ==
  IF ~w \/ in # <<>> THEN c ELSE LoadState(c, in).core

\* EmulatorLibretro::LoadUncompressed: the core state afterwards.
LoadUncompressed(w, c, in) ==
  IF ~w \/ in = <<>> THEN c ELSE LoadState(c, in).core

----------------------------------------------------------------------------
(* Compressed state I/O.  zlib's deflate stream is modelled by a lossless   *)
(* codec with the same interface: a header byte followed by run-length      *)
(* pairs <<count, byte>>; inflating checks the header, the framing and the  *)
(* size of the destination buffer.                                          *)

RECURSIVE RunLen(_, _)
\* Length of the run of equal bytes that starts at position i of raw.
RunLen(raw, i) ==
  IF i < Len(raw) /\ raw[i + 1] = raw[i]
  THEN 1 + RunLen(raw, i + 1)
  ELSE 1

RECURSIVE Rle(_, _)
Rle(raw, i) ==
  IF i > Len(raw) THEN <<>>
  ELSE LET n == RunLen(raw, i)
       IN  <<n, raw[i]>> \o Rle(raw, i + n)

\* compress2(dest, &destLen, source, sourceLen, level) into a buffer of
\* compressBound(sourceLen) bytes: the payload.
Compress(raw) == <<120>> \o Rle(raw, 1)

RECURSIVE Unrle(_, _)
Unrle(body, i) ==
  IF i > Len(body) THEN <<>>
  ELSE [j \in 1..body[i] |-> body[i + 1]] \o Unrle(body, i + 2)

\* uncompress(dest, &destLen, source, sourceLen): Z_OK and the inflated
\* bytes, or an error (Z_DATA_ERROR, Z_BUF_ERROR).
Uncompress(payload, destLen) ==
  IF Len(payload) = 0 \/ payload[1] # 120
  THEN [ok |-> FALSE, data |-> <<>>]
  ELSE LET body == Tail(payload)
       IN  IF \/ Len(body) % 2 # 0
              \/ \E k \in 1..(Len(body) \div 2) : body[2 * k - 1] = 0
           THEN [ok |-> FALSE, data |-> <<>>]
           ELSE LET data == Unrle(body, 1)
                IN  IF Len(data) > destLen
                    THEN [ok |-> FALSE, data |-> <<>>]
                    ELSE [ok |-> TRUE, data |-> data]

\* The 4-byte header: a uint32 stored in host (little-endian) order.
Le32(n) == <<n % 256, (n \div 256) % 256, (n \div 65536) % 256,
             (n \div 16777216) % 256>>

FromLe32(in) == in[1] + 256 * in[2] + 65536 * in[3] + 16777216 * in[4]

\* A basis argument: absent (nullptr) or a byte vector.
NoBasis == [has |-> FALSE, bytes |-> <<>>]

BasisOfLen(n) == [has |-> TRUE, bytes |-> [i \in 1..n |-> 256 - i]]

Bases == {NoBasis} \cup
         {BasisOfLen(n) : n \in {StateSize - 1, StateSize, StateSize + 1}}

\* raw[i] -= basis[i] for i < blen, on uint8.
SubBasis(raw, basis) ==
  LET blen == IF basis.has THEN Min(Len(basis.bytes), Len(raw)) ELSE 0
  IN  [i \in 1..Len(raw) |->
         IF i <= blen THEN (raw[i] + 256 - basis.bytes[i]) % 256 ELSE raw[i]]

\* The load side subtracting the basis a second time instead of adding it.
AddBasisSubtracts(data, basis) ==
  LET blen == IF basis.has THEN Min(Len(basis.bytes), Len(data)) ELSE 0
  IN  [i \in 1..Len(data) |->
         IF i <= blen THEN (data[i] + 256 - basis.bytes[i]) % 256 ELSE data[i]]

\* uncompressed[i] += basis[i] for i < blen, on uint8.
AddBasis(data, basis) ==
  LET blen == IF basis.has THEN Min(Len(basis.bytes), Len(data)) ELSE 0
  IN  [i \in 1..Len(data) |->
         IF i <= blen THEN (data[i] + basis.bytes[i]) % 256 ELSE data[i]]

\* EmulatorLibretro::SaveEx(out, basis); zok is whether compress2
\* returns Z_OK.
SaveEx(w, c, basis, zok) ==
  LET raw == SubBasis(SaveUncompressed(w, c), basis)
  IN  IF ~zok
      THEN [aborted |-> TRUE, out |-> <<>>]
      ELSE [aborted |-> FALSE, out |-> Le32(Len(raw)) \o Compress(raw)]

\* The length test off by one: a 3-byte input is let through.
LoadExTooShortOffByOne(in) == Len(in) < 3

\* if (in->size() < 4) return;
LoadExTooShort(in) == Len(in) < 4

\* The result of uncompress ignored.
InflateFailureIgnored(ok) == FALSE

\* if (uncompress(...) != Z_OK) abort();
InflateFailureAborts(ok) == ~ok

\* EmulatorLibretro::LoadEx(in, basis): whether the process aborted,
\* whether LoadUncompressed was invoked, and the core state afterwards.
LoadEx(w, c, in, basis) ==
  IF LoadExTooShort(in)
  THEN [aborted |-> FALSE, loaded |-> FALSE, zok |-> TRUE, core |-> c]
  ELSE LET uncomprlen == FromLe32(ResizeVec(in, 4))
           r == Uncompress(SubSeq(in, 5, Len(in)), uncomprlen)
       IN  IF InflateFailureAborts(r.ok)
           THEN [aborted |-> TRUE, loaded |-> FALSE, zok |-> r.ok, core |-> c]
           ELSE [aborted |-> FALSE, loaded |-> TRUE, zok |-> r.ok,
                 core |-> LoadUncompressed(w, c, AddBasis(r.data, basis))]

\* Inputs handed to LoadEx besides the blobs SaveEx produced.
ShortBlobs == {<<>>, <<GetStateSize, 0, 0>>}

CorruptBlobs == {Le32(GetStateSize) \o <<0>>,
                 Le32(0) \o Compress(Zeros(GetStateSize))}

ValidBlobs == {Le32(GetStateSize) \o Compress(Zeros(GetStateSize))}

----------------------------------------------------------------------------
(* The search loop (playfun-nobacktrack-libretro.cc): its constants, its    *)
(* generators and its scoring.  Scores are doubles in the program; the      *)
(* model keeps them in fixed point, ScoreUnit units to 1.0, so that sums,   *)
(* comparisons and the thresholds 0.3 and 0.7 are exact.                    *)

ScoreUnit == 2

HISTORY_SIZE == 50

\* motif_uses < 100: every motif is still tried.
EarlyUses == 100

\* rc.Byte() < 64: the chance of a motif outside the best half.
SubsetByte == 64

AvoidDefault == <<20, 75>>
SeekDefault  == <<30, 30, 50>>
AvoidShort   == <<10, 30>>
SeekShort    == <<15, 15, 25>>
AvoidLong    == <<40, 150>>
SeekLong     == <<50, 50, 100>>

\* double best_score = -999999999.0;
WorstScore == (0 - 999999999) * ScoreUnit

\* double total = 1.0; of the two look-ahead functions.
Placeholder == ScoreUnit

\* EmulatorLibretro::ResetCache(100000, 10000) of the constructor.
CacheStates == 100000
CacheSlop   == 10000

Max(a, b) == IF a > b THEN a ELSE b

RECURSIVE SumSeq(_)
SumSeq(s) == IF s = <<>> THEN 0 ELSE Head(s) + SumSeq(Tail(s))

\* ArcFour::Byte(): the next state of the generator, which is also the
\* byte it returns (the cipher lies outside the repository; a full-period
\* congruential generator over the bytes stands in for it).
NextByte(x) == (5 * x + 3) % 256

\* The number in 0..n-1 a generator draws from its byte b.
Draw(b, n) == (b \div 8) % n

Swap(v, i, j) == [v EXCEPT ![i] = v[j], ![j] = v[i]]

RECURSIVE ShuffleFrom(_, _, _)
ShuffleFrom(v, i, r) ==
  IF i > Len(v) THEN [v |-> v, rnd |-> r]
  ELSE LET b == NextByte(r)
       IN  ShuffleFrom(Swap(v, i, 1 + Draw(b, Len(v))), i + 1, b)

\* Shuffle(&v): a pseudo-random permutation of v in place, and the state
\* of its generator afterwards.
Shuffle(v, r) == ShuffleFrom(v, 1, r)

\* Motifs::RandomWeightedMotif(): the index of the motif drawn, and the
\* state of the generator afterwards.
RandomWeightedMotif(bank, r) ==
  LET b == NextByte(r)
  IN  [idx |-> Draw(b, Len(bank)), rnd |-> b]

RECURSIVE RandomPicks(_, _, _)
\* The indices of the next k motifs RandomWeightedMotif returns.
RandomPicks(bank, r, k) ==
  IF k = 0 THEN [picks |-> <<>>, rnd |-> r]
  ELSE LET m    == RandomWeightedMotif(bank, r)
           rest == RandomPicks(bank, m.rnd, k - 1)
       IN  [picks |-> <<m.idx>> \o rest.picks, rnd |-> rest.rnd]

\* The objectives loaded from the .objectives file and the scoring mode.
NoObjectives == [magnitude |-> FALSE, weight |-> 0]

\* WeightedObjectives::Evaluate: the weight of every objective (here one
\* per RAM byte, all of the same weight) that went up.
Evaluate(o, mem1, mem2) ==
  o.weight * Cardinality({i \in 1..Min(Len(mem1), Len(mem2)) :
                            mem1[i] < mem2[i]})

\* WeightedObjectives::EvaluateMagnitude: the weighted amount of change.
EvaluateMagnitude(o, mem1, mem2) ==
  o.weight * SumSeq([i \in 1..Min(Len(mem1), Len(mem2)) |->
                       mem2[i] - mem1[i]])

\* PlayFun::ScoreChange.
ScoreChange(o, mem1, mem2) ==
  IF o.magnitude THEN EvaluateMagnitude(o, mem1, mem2)
  ELSE Evaluate(o, mem1, mem2)

\* PlayFun::GetAverageFutureScore as the fraction sum / n.
GetAverageFutureScore(h) ==
  IF h = <<>> THEN [sum |-> 0, n |-> 1]
  ELSE [sum |-> SumSeq(h), n |-> Len(h)]

RECURSIVE PopFront(_)
\* while (recent_futures.size() > HISTORY_SIZE) recent_futures.pop_front();
PopFront(h) == IF Len(h) > HISTORY_SIZE THEN PopFront(Tail(h)) ELSE h

\* RecordFutureScore without the loop that drops the oldest values.
RecordFutureScoreUnbounded(h, score) == Append(h, score)

\* PlayFun::RecordFutureScore.
RecordFutureScore(h, score) == PopFront(Append(h, score))

\* PlayFun::AdaptFutureDepths: avg < 0.3 and avg > 0.7 on the fraction.
AdaptFutureDepths(h, ad, sd) ==
  IF Len(h) < HISTORY_SIZE \div 2 THEN [avoid |-> ad, seek |-> sd]
  ELSE LET avg == GetAverageFutureScore(h)
       IN  IF 10 * avg.sum < 3 * ScoreUnit * avg.n
           THEN [avoid |-> AvoidShort, seek |-> SeekShort]
           ELSE IF 10 * avg.sum > 7 * ScoreUnit * avg.n
           THEN [avoid |-> AvoidLong, seek |-> SeekLong]
           ELSE [avoid |-> AvoidDefault, seek |-> SeekDefault]

\* The indices 0..n-1 in increasing order.
Iota(n) == [i \in 1..n |-> i - 1]

\* The comparison of the sort turned around: worst score first.
ScoreBeforeReversed(scores, a, b) == scores[a + 1] < scores[b + 1]

\* The comparison of the sort: a.first > b.first.
ScoreBefore(scores, a, b) == scores[a + 1] > scores[b + 1]

RECURSIVE SortByScore(_, _)
\* std::sort of the <<score, index>> pairs of the indices in S (pairs the
\* comparison does not order are left in index order).
SortByScore(S, scores) ==
  IF S = {} THEN <<>>
  ELSE LET m == CHOOSE x \in S :
                  \A y \in S : \/ ScoreBefore(scores, x, y)
                               \/ /\ ~ScoreBefore(scores, y, x)
                                  /\ x <= y
       IN  <<m>> \o SortByScore(S \ {m}, scores)

RECURSIVE RandomSubset(_, _, _)
\* The loop over the indices outside the best half: each is selected when
\* the byte drawn for it is below SubsetByte.
RandomSubset(scored, i, r) ==
  IF i > Len(scored) THEN [selected |-> <<>>, rc |-> r]
  ELSE LET b    == NextByte(r)
           rest == RandomSubset(scored, i + 1, b)
       IN  [selected |-> (IF b < SubsetByte THEN <<scored[i]>> ELSE <<>>)
                           \o rest.selected,
            rc |-> rest.rc]

\* PlayFun::SelectMotifsToTry: the indices selected and the states of the
\* two generators afterwards.
SelectMotifsToTry(bank, scores, uses, r, rn) ==
  LET n == Len(bank)
  IN  IF uses < EarlyUses
      THEN LET sh == Shuffle(Iota(n), rn)
           IN  [selected |-> sh.v, rc |-> r, rnd |-> sh.rnd]
      ELSE LET scored    == SortByScore(0..(n - 1), scores)
               best_half == n \div 2
               sub       == RandomSubset(scored, best_half + 1, r)
               sh        == Shuffle(SubSeq(scored, 1, best_half)
                                      \o sub.selected, rn)
           IN  [selected |-> sh.v, rc |-> sub.rc, rnd |-> sh.rnd]

\* The averages of motif_scores are kept EmaUnit times finer than scores.
EmaUnit == 100

\* The moving average of UpdateMotifScore, old * 0.95 + score * 0.05,
\* rounded down to the resolution of the averages.
Ema(old, score) == (95 * old + 5 * score * EmaUnit) \div 100

\* PlayFun::UpdateMotifScore.
UpdateMotifScore(bank, scores, uses, motif_idx, score) ==
  LET sized == IF scores = <<>> THEN Zeros(Len(bank)) ELSE scores
  IN  [motif_scores |-> [sized EXCEPT ![motif_idx + 1] = Ema(@, score)],
       motif_uses   |-> uses + 1]

----------------------------------------------------------------------------
(* The frontend as one value e, for the operations of the search loop,     *)
(* which call the static functions of EmulatorLibretro many times in a row. *)

\* The only outcome of Remember while count <= limit + slop (MaybeGC
\* returns at once), which is so throughout a search under CacheStates.
OnlyOutcome(S) == CHOOSE o \in S : TRUE

\* EmulatorLibretro::ResetCache on e.
ResetCacheE(e, numstates, ss) ==
  IF e.g_cache
  THEN [e EXCEPT !.table = EmptyTable, !.limit = numstates, !.slop = ss,
                 !.next_seq = 0, !.count = 0]
  ELSE e

\* e after a Step that returned r.
Stepped(e, r) ==
  [e EXCEPT !.core = r.core, !.input_state = r.input_state,
            !.frame = r.frame, !.audio = r.audio]

\* EmulatorLibretro::Step on e.
StepE(e, inputs) ==
  Only({Stepped(e, r) :
          r \in {Step(e.g_wrapper, e.core, e.input_state, e.frame, e.audio,
                      inputs)}})

SaveUncompressedE(e) == SaveUncompressed(e.g_wrapper, e.core)

LoadUncompressedE(e, in) ==
  [e EXCEPT !.core = LoadUncompressed(e.g_wrapper, e.core, in)]

GetMemoryE(e) == GetMemory(e.g_wrapper, e.core)

\* The miss branch of CachingStep once Remember has had outcome o: st is
\* the frontend after the Step, r the result of GetKnown.
Remembered(st, r, o) ==
  [st EXCEPT !.misses = r.misses, !.table = o.table, !.count = o.count,
             !.next_seq = o.next_seq]

\* The miss branch of CachingStep: Step has been taken and led to st.
CacheMiss(e, input, start, r, st) ==
  Only({Remembered(st, r, o) :
          o \in {OnlyOutcome(Remember(e.table, e.count, e.limit, e.slop,
                                      e.next_seq, input, start,
                                      SaveUncompressedE(st)))}})

\* CachingStep after g_cache->GetKnown(input, start) has returned r.
CacheLookedUp(e, input, start, r) ==
  IF r.found
  THEN [LoadUncompressedE(e, r.ret)
          EXCEPT !.table = r.table, !.next_seq = r.next_seq, !.hits = r.hits]
  ELSE Only({CacheMiss(e, input, start, r, st) : st \in {StepE(e, input)}})

\* CachingStep after SaveUncompressed(&start).
CachingStepFrom(e, input, start) ==
  Only({CacheLookedUp(e, input, start, r) :
          r \in {GetKnown(e.table, e.next_seq, e.hits, e.misses, input,
                          start)}})

\* EmulatorLibretro::CachingStep on e.
CachingStepE(e, input) ==
  IF ~e.g_cache THEN StepE(e, input)
  ELSE CachingStepFrom(e, input, SaveUncompressedE(e))

RECURSIVE CachingSteps(_, _)
\* for (j = 0; j < m.size(); j++) CachingStep(m[j]);
CachingSteps(e, m) ==
  IF m = <<>> THEN e
  ELSE Only({CachingSteps(e1, Tail(m)) : e1 \in {CachingStepE(e, Head(m))}})

----------------------------------------------------------------------------
(* The look-ahead of the search loop.  A trial is given the indices of the *)
(* motifs RandomWeightedMotif returns during it.  The value of a trial is  *)
(* the frontend afterwards (e), the running total, the scores taken in     *)
(* order and the serialized state the trial started from.                  *)

\* The look-ahead trials reloading the base state never.
NotFirstNever(i) == FALSE

\* if (i) ... / if (trial != 0) ...: every round but the first reloads.
NotFirst(i) == i # 0

RECURSIVE AvoidSteps(_, _, _, _, _, _, _, _, _)
RECURSIVE AvoidScored(_, _, _, _, _, _, _, _, _, _)
RECURSIVE AvoidStepped(_, _, _, _, _, _, _, _, _)

\* The loops over d and x of one trial of AvoidBadFutures, at motif d and
\* byte x of it, acc being the value of the trial so far.
AvoidSteps(e, o, bank, base_memory, i, d, x, picks, acc) ==
  IF d >= Len(picks) THEN [acc EXCEPT !.e = e]
  ELSE IF x >= Len(bank[picks[d + 1] + 1])
  THEN AvoidSteps(e, o, bank, base_memory, i, d + 1, 0, picks, acc)
  ELSE Only({AvoidStepped(e1, o, bank, base_memory, i, d, x, picks, acc) :
               e1 \in {CachingStepE(e, bank[picks[d + 1] + 1][x + 1])}})

\* After CachingStep(m[x]): the memory is read and scored.
AvoidStepped(e1, o, bank, base_memory, i, d, x, picks, acc) ==
  Only({AvoidScored(e1, o, bank, base_memory, i, d, x, picks, acc, score) :
          score \in {ScoreChange(o, base_memory, GetMemoryE(e1))}})

\* total = (i || d || x) ? std::min(total, score) : score;
AvoidScored(e1, o, bank, base_memory, i, d, x, picks, acc, score) ==
  Only({AvoidSteps(e1, o, bank, base_memory, i, d, x + 1, picks, acc1) :
          acc1 \in {[acc EXCEPT !.total = IF i # 0 \/ d # 0 \/ x # 0
                                          THEN Min(@, score) ELSE score,
                                !.scores = Append(@, score)]}})

\* A trial of AvoidBadFutures from the frontend e1 it starts in.
AvoidFrom(e1, o, bank, base_memory, i, picks, total) ==
  AvoidSteps(e1, o, bank, base_memory, i, 0, 0, picks,
             [e |-> e1, total |-> total, scores |-> <<>>,
              start |-> SaveUncompressedE(e1)])

\* Trial i of AvoidBadFutures entered with the running total: the reload
\* of the base state, then the rollout.
AvoidTrial(e, o, bank, base_state, base_memory, i, picks, total) ==
  Only({AvoidFrom(e1, o, bank, base_memory, i, picks, total) :
          e1 \in {IF NotFirst(i) THEN LoadUncompressedE(e, base_state)
                  ELSE e}})

RECURSIVE SeekSteps(_, _, _, _)
\* The loops over d and x of one trial of SeekGoodFutures.
SeekSteps(e, bank, d, picks) ==
  IF d >= Len(picks) THEN e
  ELSE Only({SeekSteps(e1, bank, d + 1, picks) :
               e1 \in {CachingSteps(e, bank[picks[d + 1] + 1])}})

\* The update of the total with the maximum taken in the first trial too.
SeekScoredAlwaysMax(e2, i, total, score, start) ==
  [e |-> e2, total |-> Max(total, score),
   scores |-> <<score>>, start |-> start]

\* total = i ? std::max(total, score) : score;
SeekScored(e2, i, total, score, start) ==
  [e |-> e2, total |-> IF i # 0 THEN Max(total, score) ELSE score,
   scores |-> <<score>>, start |-> start]

\* After the rollout of a trial of SeekGoodFutures: the memory is read
\* and scored.
SeekRolled(e2, o, base_memory, i, total, start) ==
  Only({SeekScored(e2, i, total, score, start) :
          score \in {ScoreChange(o, base_memory, GetMemoryE(e2))}})

\* A trial of SeekGoodFutures from the frontend e1 it starts in.
SeekFrom(e1, o, bank, base_memory, i, picks, total) ==
  Only({SeekRolled(e2, o, base_memory, i, total, SaveUncompressedE(e1)) :
          e2 \in {SeekSteps(e1, bank, 0, picks)}})

\* Trial i of SeekGoodFutures entered with the running total.
SeekTrial(e, o, bank, base_state, base_memory, i, picks, total) ==
  Only({SeekFrom(e1, o, bank, base_memory, i, picks, total) :
          e1 \in {IF NotFirst(i) THEN LoadUncompressedE(e, base_state)
                  ELSE e}})

\* The number of motifs of a rollout of the given depth that are modelled.
Rollout(depth) == Min(depth, MaxPicks)

\* The locals of Greedy, of the candidate being evaluated and of the
\* look-ahead function being run; totals lists <<motif_idx, score>> of the
\* candidates evaluated in the iteration.
NoGreedy ==
  [framenum |-> 0, current_state |-> <<>>, current_memory |-> <<>>,
   motifs_to_try |-> <<>>, trial |-> 0, best_score |-> 0,
   best_future |-> 0, best_immediate |-> 0, best_motif_idx |-> 0,
   new_memory |-> <<>>, new_state |-> <<>>, immediate_score |-> 0,
   future_score |-> 0, base_state |-> <<>>, base_memory |-> <<>>,
   total |-> 0, i |-> 0, totals |-> <<>>]

\* The value of replayed while there is no movie.
NoReplay == <<>>

\* No search program in the process.
PlayIdle ==
  /\ solution = <<>>
  /\ motifvec = <<>>
  /\ objectives = NoObjectives
  /\ rc = 0
  /\ rnd = 0
  /\ movie = <<>>
  /\ recent_futures = <<>>
  /\ avoid_depths = AvoidDefault
  /\ seek_depths = SeekDefault
  /\ motif_scores = <<>>
  /\ motif_uses = 0
  /\ greedy = NoGreedy
  /\ pc = "none"
  /\ replayed = NoReplay

----------------------------------------------------------------------------
(* Record of the last operation *)

NoSaved == [valid |-> FALSE, init |-> FALSE, blob |-> <<>>, basis |-> NoBasis,
            state |-> <<>>]

NoUSaved == [valid |-> FALSE, init |-> FALSE, bytes |-> <<>>, ram |-> <<>>]

NoOp == [op |-> "none", input |-> 0, start |-> <<>>, result |-> <<>>,
         basis |-> NoBasis, found |-> FALSE,
         gc |-> FALSE, oob |-> FALSE, ok |-> TRUE, loaded |-> FALSE,
         again |-> FALSE, val |-> 0, w |-> 0, args |-> <<>>, ret |-> "none", calls |-> <<>>,
         allocated |-> 0, freed |-> 0, orderings |-> <<>>]

Op(name) == [NoOp EXCEPT !.op = name]

\* No Objective has been constructed.
NoMemories == <<>>

----------------------------------------------------------------------------
(* Specification of the cache driven directly through its own methods *)

InitCommon ==
  /\ table = EmptyTable
  /\ limit = DefaultLimit
  /\ slop = DefaultSlop
  /\ count = 0
  /\ next_seq = 0
  /\ hits = 0
  /\ misses = 0
  /\ core = PowerOn
  /\ input_state = <<0, 0>>
  /\ g_frame_rgba = <<>>
  /\ g_audio_samples = <<>>
  /\ saved = NoSaved
  /\ usaved = NoUSaved
  /\ lastOp = NoOp
  /\ halted = "no"
  /\ core_handle = [w \in Wrappers |-> FALSE]
  /\ rom_loaded = [w \in Wrappers |-> FALSE]
  /\ dl_open = [w \in Wrappers |-> 0]
  /\ cores = [w \in Wrappers |-> PowerOn]
  /\ g_current_impl = 0
  /\ PlayIdle

InitCache ==
  /\ InitCommon
  /\ g_cache = TRUE
  /\ g_wrapper = FALSE
  /\ g_initialized = FALSE
  /\ memories = NoMemories

CacheResize(ll, ss) ==
  /\ halted = "no"
  /\ table' = EmptyTable
  /\ limit' = ll
  /\ slop' = ss
  /\ next_seq' = 0
  /\ count' = 0
  /\ lastOp' = [Op("Resize") EXCEPT !.args = <<ll, ss>>,
                                    !.freed = Payloads(table)]
  /\ UNCHANGED <<hits, misses, halted>>
  /\ UNCHANGED efVars
  /\ UNCHANGED wrapVars
  /\ UNCHANGED playVars
  /\ UNCHANGED memories

CacheRemember(input, start, result) ==
  /\ halted = "no"
  /\ next_seq < MaxSeq
  /\ \E o \in Remember(table, count, limit, slop, next_seq, input, start, result) :
       /\ table' = o.table
       /\ count' = o.count
       /\ next_seq' = o.next_seq
       /\ halted' = IF o.crash THEN "crash" ELSE "no"
       /\ lastOp' = [Op("Remember") EXCEPT !.input = input, !.start = start,
                       !.result = result, !.gc = o.gc, !.oob = o.oob,
                       !.allocated = 2,
                       !.freed =
                          Payloads(Emplace(table, <<input, start>>,
                                           [seq |-> next_seq,
                                            post |-> result]))
                          - Payloads(o.table)]
  /\ UNCHANGED <<limit, slop, hits, misses>>
  /\ UNCHANGED efVars
  /\ UNCHANGED wrapVars
  /\ UNCHANGED playVars
  /\ UNCHANGED memories

CacheGetKnown(input, start) ==
  /\ halted = "no"
  /\ next_seq < MaxSeq
  /\ hits + misses < MaxSeq
  /\ LET r == GetKnown(table, next_seq, hits, misses, input, start)
     IN  /\ table' = r.table
         /\ next_seq' = r.next_seq
         /\ hits' = r.hits
         /\ misses' = r.misses
         /\ lastOp' = [Op("GetKnown") EXCEPT !.input = input, !.start = start,
                         !.found = r.found, !.result = r.ret]
  /\ UNCHANGED <<limit, slop, count, halted>>
  /\ UNCHANGED efVars
  /\ UNCHANGED wrapVars
  /\ UNCHANGED playVars
  /\ UNCHANGED memories

NextCache ==
  \/ \E ll \in 0..MaxLimit, ss \in 0..MaxLimit : CacheResize(ll, ss)
  \/ \E b \in Inputs, s \in ApiStates, p \in ApiStates : CacheRemember(b, s, p)
  \/ \E b \in Inputs, s \in ApiStates : CacheGetKnown(b, s)

SpecCache == InitCache /\ [][NextCache]_vars

----------------------------------------------------------------------------
(* Specification of the frontend: the static functions of EmulatorLibretro *)

InitEF ==
  /\ InitCommon
  /\ g_cache = FALSE
  /\ g_wrapper = FALSE
  /\ g_initialized = FALSE
  /\ memories = NoMemories

\* A freshly constructed StateCache (also the value the cache variables
\* hold while g_cache is null).
FreshCache ==
  /\ table' = EmptyTable
  /\ limit' = DefaultLimit
  /\ slop' = DefaultSlop
  /\ count' = 0
  /\ next_seq' = 0
  /\ hits' = 0
  /\ misses' = 0

\* The guard of Initialize ignored: a second Initialize goes through.
AlreadyInitializedIgnored(init) == FALSE

\* if (g_initialized) return false;
AlreadyInitialized(init) == init

\* Shutdown leaving the frame buffer as it is.
ClearFrameForgotten(frame) == frame

\* g_frame_rgba.clear() of Shutdown.
ClearFrame(frame) == <<>>

\* Initialize(core_path, rom_path); core_ok / rom_ok are the results of
\* LoadCore and LoadROM.
Initialize(core_ok, rom_ok) ==
  /\ halted = "no"
  /\ IF AlreadyInitialized(g_initialized)
     THEN /\ UNCHANGED cacheVars
          /\ UNCHANGED <<g_cache, g_wrapper, g_initialized, core, input_state>>
          /\ lastOp' = [Op("Initialize") EXCEPT !.ok = FALSE]
     ELSE /\ FreshCache
          /\ g_cache' = TRUE
          /\ g_wrapper' = (core_ok /\ rom_ok)
          /\ g_initialized' = (core_ok /\ rom_ok)
          /\ core' = PowerOn
          /\ input_state' = <<0, 0>>
          /\ lastOp' = [Op("Initialize") EXCEPT
                          !.ok = (core_ok /\ rom_ok),
                          !.args = <<core_ok, rom_ok>>,
                          !.freed = IF g_cache THEN DeletedByDestructor(table)
                                    ELSE 0]
  /\ UNCHANGED <<g_frame_rgba, g_audio_samples, saved, usaved, halted>>
  /\ UNCHANGED wrapVars
  /\ UNCHANGED playVars
  /\ UNCHANGED memories

Shutdown ==
  /\ halted = "no"
  /\ FreshCache
  /\ g_wrapper' = FALSE
  /\ g_cache' = FALSE
  /\ g_frame_rgba' = ClearFrame(g_frame_rgba)
  /\ g_audio_samples' = <<>>
  /\ g_initialized' = FALSE
  /\ core' = PowerOn
  /\ input_state' = <<0, 0>>
  /\ lastOp' = [Op("Shutdown") EXCEPT
                  !.again = (lastOp.op = "Shutdown"),
                  !.freed = IF g_cache THEN DeletedByDestructor(table) ELSE 0]
  /\ UNCHANGED <<saved, usaved, halted>>
  /\ UNCHANGED wrapVars
  /\ UNCHANGED playVars
  /\ UNCHANGED memories

StepOp(inputs) ==
  /\ halted = "no"
  /\ LET r == Step(g_wrapper, core, input_state, g_frame_rgba,
                   g_audio_samples, inputs)
     IN  /\ core' = r.core
         /\ input_state' = r.input_state
         /\ g_frame_rgba' = r.frame
         /\ g_audio_samples' = r.audio
  /\ lastOp' = [Op("Step") EXCEPT !.input = inputs]
  /\ UNCHANGED cacheVars
  /\ UNCHANGED <<g_cache, g_wrapper, g_initialized, saved, usaved, halted>>
  /\ UNCHANGED wrapVars
  /\ UNCHANGED playVars
  /\ UNCHANGED memories

ResetCache(numstates, ss) ==
  /\ halted = "no"
  /\ IF g_cache
     THEN /\ table' = EmptyTable
          /\ limit' = numstates
          /\ slop' = ss
          /\ next_seq' = 0
          /\ count' = 0
          /\ UNCHANGED <<hits, misses>>
     ELSE UNCHANGED cacheVars
  /\ lastOp' = [Op("ResetCache") EXCEPT
                  !.freed = IF g_cache THEN Payloads(table) ELSE 0]
  /\ UNCHANGED efVars
  /\ UNCHANGED halted
  /\ UNCHANGED wrapVars
  /\ UNCHANGED playVars
  /\ UNCHANGED memories

\* The test of CachingStep taking the result of GetKnown for absent.
CachedNever(r) == FALSE

\* if (auto* cached = g_cache->GetKnown(input, start)): r is the result of
\* GetKnown.
Cached(r) == r.found

CachingStep(input) ==
  /\ halted = "no"
  /\ next_seq < MaxSeq
  /\ hits + misses < MaxSeq
  /\ LET start == SaveUncompressed(g_wrapper, core)
         st    == Step(g_wrapper, core, input_state, g_frame_rgba,
                       g_audio_samples, input)
         op    == [Op("CachingStep") EXCEPT !.input = input, !.start = start]
     IN  IF ~g_cache
         THEN /\ core' = st.core
              /\ input_state' = st.input_state
              /\ g_frame_rgba' = st.frame
              /\ g_audio_samples' = st.audio
              /\ lastOp' = op
              /\ UNCHANGED cacheVars
              /\ UNCHANGED halted
         ELSE LET r == GetKnown(table, next_seq, hits, misses, input, start)
              IN  IF Cached(r)
                  THEN /\ core' = LoadUncompressed(g_wrapper, core, r.ret)
                       /\ table' = r.table
                       /\ next_seq' = r.next_seq
                       /\ hits' = r.hits
                       /\ lastOp' = [op EXCEPT !.found = TRUE, !.result = r.ret]
                       /\ UNCHANGED <<limit, slop, count, misses, input_state,
                                      g_frame_rgba, g_audio_samples, halted>>
                  ELSE LET result == SaveUncompressed(g_wrapper, st.core)
                       IN  /\ core' = st.core
                           /\ input_state' = st.input_state
                           /\ g_frame_rgba' = st.frame
                           /\ g_audio_samples' = st.audio
                           /\ misses' = r.misses
                           /\ \E o \in Remember(table, count, limit, slop,
                                                next_seq, input, start, result) :
                                /\ table' = o.table
                                /\ count' = o.count
                                /\ next_seq' = o.next_seq
                                /\ halted' = IF o.crash THEN "crash" ELSE "no"
                                /\ lastOp' =
                                     [op EXCEPT
                                        !.result = result,
                                        !.found = r.found,
                                        !.gc = o.gc, !.oob = o.oob,
                                        !.allocated = 2,
                                        !.freed =
                                           Payloads(table) + 2
                                             - Payloads(o.table)]
                           /\ UNCHANGED <<limit, slop, hits>>
  /\ UNCHANGED <<g_cache, g_wrapper, g_initialized, saved, usaved>>
  /\ UNCHANGED wrapVars
  /\ UNCHANGED playVars
  /\ UNCHANGED memories

SaveUncompressedOp ==
  /\ halted = "no"
  /\ usaved' = [valid |-> TRUE, init |-> g_initialized,
                bytes |-> SaveUncompressed(g_wrapper, core),
                ram   |-> GetMemory(g_wrapper, core)]
  /\ lastOp' = Op("SaveUncompressed")
  /\ UNCHANGED cacheVars
  /\ UNCHANGED <<g_cache, g_wrapper, g_initialized, core, input_state,
                 g_frame_rgba, g_audio_samples, saved, halted>>
  /\ UNCHANGED wrapVars
  /\ UNCHANGED playVars
  /\ UNCHANGED memories

LoadUncompressedOp(in) ==
  /\ halted = "no"
  /\ core' = LoadUncompressed(g_wrapper, core, in)
  /\ lastOp' = [Op("LoadUncompressed") EXCEPT !.start = in,
                  !.result = SaveUncompressed(g_wrapper, core)]
  /\ UNCHANGED cacheVars
  /\ UNCHANGED <<g_cache, g_wrapper, g_initialized, input_state,
                 g_frame_rgba, g_audio_samples, saved, usaved, halted>>
  /\ UNCHANGED wrapVars
  /\ UNCHANGED playVars
  /\ UNCHANGED memories

SaveExOp(basis, zok) ==
  /\ halted = "no"
  /\ LET r == SaveEx(g_wrapper, core, basis, zok)
     IN  /\ halted' = IF r.aborted THEN "abort" ELSE "no"
         /\ saved' = IF r.aborted THEN saved
                     ELSE [valid |-> TRUE, init |-> g_initialized,
                           blob |-> r.out, basis |-> basis,
                           state |-> SaveUncompressed(g_wrapper, core)]
  /\ lastOp' = [Op("SaveEx") EXCEPT !.basis = basis, !.ok = zok]
  /\ UNCHANGED cacheVars
  /\ UNCHANGED <<g_cache, g_wrapper, g_initialized, core, input_state,
                 g_frame_rgba, g_audio_samples, usaved>>
  /\ UNCHANGED wrapVars
  /\ UNCHANGED playVars
  /\ UNCHANGED memories

LoadExOp(in, basis) ==
  /\ halted = "no"
  /\ LET r == LoadEx(g_wrapper, core, in, basis)
     IN  /\ halted' = IF r.aborted THEN "abort" ELSE "no"
         /\ core' = r.core
         /\ lastOp' = [Op("LoadEx") EXCEPT !.start = in, !.basis = basis,
                         !.result = SaveUncompressed(g_wrapper, core),
                         !.ok = r.zok, !.loaded = r.loaded]
  /\ UNCHANGED cacheVars
  /\ UNCHANGED <<g_cache, g_wrapper, g_initialized, input_state,
                 g_frame_rgba, g_audio_samples, saved, usaved>>
  /\ UNCHANGED wrapVars
  /\ UNCHANGED playVars
  /\ UNCHANGED memories

\* The (input, basis) pairs LoadEx is called with: the blob of the last
\* SaveEx with the basis it was made with, and hand-made inputs.
LoadExInputs ==
  (IF saved.valid THEN {<<saved.blob, saved.basis>>} ELSE {})
  \cup ((ShortBlobs \cup CorruptBlobs) \X Bases)
  \cup (ValidBlobs \X {NoBasis})

\* The frontend with its cache: steps go through CachingStep.
NextEF ==
  \/ \E core_ok \in BOOLEAN, rom_ok \in BOOLEAN : Initialize(core_ok, rom_ok)
  \/ Shutdown
  \/ \E b \in Inputs : CachingStep(b)
  \/ \E ll \in 0..MaxLimit, ss \in 0..MaxLimit : ResetCache(ll, ss)
  \/ SaveUncompressedOp
  \/ \E in \in {usaved.bytes, <<>>} : LoadUncompressedOp(in)

SpecEF == InitEF /\ [][NextEF]_vars

\* The life cycle of the frontend: Initialize, cached steps, Shutdown.
NextLife ==
  \/ \E core_ok \in BOOLEAN, rom_ok \in BOOLEAN : Initialize(core_ok, rom_ok)
  \/ Shutdown
  \/ \E b \in Inputs : CachingStep(b)
  \/ \E ll \in 0..MaxLimit, ss \in 0..MaxLimit : ResetCache(ll, ss)

SpecLife == InitEF /\ [][NextLife]_vars

\* The frontend driven through plain steps and raw save/load.
NextRaw ==
  \/ \E core_ok \in BOOLEAN, rom_ok \in BOOLEAN : Initialize(core_ok, rom_ok)
  \/ Shutdown
  \/ \E b \in Inputs : StepOp(b)
  \/ SaveUncompressedOp
  \/ \E in \in {usaved.bytes, <<>>} : LoadUncompressedOp(in)

SpecRaw == InitEF /\ [][NextRaw]_vars

\* The frontend driven through its compressed save/load interface.
NextIO ==
  \/ \E core_ok \in BOOLEAN, rom_ok \in BOOLEAN : Initialize(core_ok, rom_ok)
  \/ \E b \in Inputs : CachingStep(b)
  \/ \E basis \in Bases, zok \in BOOLEAN : SaveExOp(basis, zok)
  \/ \E p \in LoadExInputs : LoadExOp(p[1], p[2])

SpecIO == InitEF /\ [][NextIO]_vars

----------------------------------------------------------------------------
(* LibretroWrapper instances driven directly.  The operators work on the   *)
(* view s of one wrapper: its Impl fields, the state of its core, the      *)
(* thread-local g_current_impl (cur) and the calls made so far into the    *)
(* dynamic loader and the core.                                            *)

\* Number of symbols LoadAllSymbols resolves.
NumSymbols == 21

\* A call into the loader or the core made by wrapper w while the thunks'
\* g_current_impl is cur.
Call(fn, w, cur) == [fn |-> fn, w |-> w, cur |-> cur]

Called(s, fn, w) == [s EXCEPT !.calls = Append(@, Call(fn, w, s.cur))]

WState(w) ==
  [core_handle |-> core_handle[w], rom_loaded |-> rom_loaded[w],
   dl_open |-> dl_open[w], core |-> cores[w], cur |-> g_current_impl,
   calls |-> <<>>]

\* The assignment to g_current_impl left out.
SetCurrentImplForgotten(w, s) == s

\* g_current_impl = impl_.get();
SetCurrentImpl(w, s) == [s EXCEPT !.cur = w]

\* The failure paths of LoadCore leaving the shared object open.
DlCloseForgotten(n) == n

\* dlclose(core_handle): one open shared object less.
DlClose(n) == n - 1

\* The rom_loaded guards of the accessors ignored.
NoROMIgnored(s) == FALSE

\* if (!impl_->rom_loaded) return ...;
NoROM(s) == ~s.rom_loaded

\* The core_handle guards ignored.
NoCoreIgnored(s) == FALSE

\* if (!impl_->core_handle) return ...;
NoCore(s) == ~s.core_handle

\* LoadAllSymbols when dlsym finds exactly the symbols in present.
LoadAllSymbols(present) == \A i \in 1..NumSymbols : i \in present

\* The symbol tables of the shared objects handed to LoadCore: complete,
\* or lacking the first or the last required symbol.
SymbolTables == {1..NumSymbols, 2..NumSymbols, 1..(NumSymbols - 1)}

\* UnloadROM that leaves the loaded game in place.
UnloadROMSkipped(w, s) == s

UnloadROM(w, s) ==
  IF ~s.core_handle \/ ~s.rom_loaded THEN s
  ELSE [Called(SetCurrentImpl(w, s), "retro_unload_game", w)
          EXCEPT !.rom_loaded = FALSE, !.core = PowerOn]

UnloadCore(w, s) ==
  IF NoCore(s) THEN s
  ELSE LET s1 == UnloadROM(w, s)
           s2 == Called(SetCurrentImpl(w, s1), "retro_deinit", w)
           s3 == Called(s2, "dlclose", w)
       IN  [s3 EXCEPT !.dl_open = DlClose(@), !.core_handle = FALSE,
                      !.cur = 0]

\* dlclose(core_handle); core_handle = nullptr; of the failure paths.
CloseFailed(w, s) ==
  [Called(s, "dlclose", w)
     EXCEPT !.dl_open = DlClose(@), !.core_handle = FALSE]

\* LoadCore(core_path): dl_ok is whether dlopen succeeds, present the
\* symbols dlsym finds, ver_ok whether retro_api_version() returns
\* RETRO_API_VERSION.
LoadCore(w, s, dl_ok, present, ver_ok) ==
  LET s0 == UnloadCore(w, s)
  IN  IF ~dl_ok
      THEN [st |-> Called(s0, "dlopen", w), ret |-> "CoreLoadFailed"]
      ELSE
        LET s1 == [Called(s0, "dlopen", w)
                     EXCEPT !.core_handle = TRUE, !.dl_open = @ + 1]
            s2 == Called(s1, "retro_api_version", w)
            s3 == Called(SetCurrentImpl(w, s2), "retro_set_callbacks", w)
            s4 == Called(s3, "retro_init", w)
        IN  IF ~LoadAllSymbols(present)
            THEN [st |-> CloseFailed(w, s1), ret |-> "CoreLoadFailed"]
            ELSE IF ~ver_ok
            THEN [st |-> CloseFailed(w, s2), ret |-> "CoreLoadFailed"]
            ELSE [st |-> Called(s4, "retro_get_system_info", w),
                  ret |-> "OK"]

\* LoadROM(rom_path): file_ok is whether the file opens, game_ok whether
\* retro_load_game accepts it.
LoadROM(w, s, file_ok, game_ok) ==
  IF NoCore(s) THEN [st |-> s, ret |-> "CoreNotLoaded"]
  ELSE LET s0 == UnloadROM(w, s)
       IN  IF ~file_ok THEN [st |-> s0, ret |-> "ROMLoadFailed"]
           ELSE LET s1 == Called(SetCurrentImpl(w, s0), "retro_load_game", w)
                IN  IF ~game_ok THEN [st |-> s1, ret |-> "ROMLoadFailed"]
                    ELSE [st |-> [Called(Called(s1, "retro_get_system_av_info", w),
                                         "retro_set_controller_port_device", w)
                                    EXCEPT !.rom_loaded = TRUE,
                                           !.core = PowerOn],
                          ret |-> "OK"]

\* The masks of a wrapper whose SetInput is never called.
InitialInput == <<0, 0>>

\* LibretroWrapper::Run without user callbacks.
WrapperRun(w, s) ==
  IF NoROM(s) THEN s
  ELSE [Called(SetCurrentImpl(w, s), "retro_run", w)
          EXCEPT !.core = RetroRun(s.core, InitialInput[1])]

\* LibretroWrapper::Reset.
WrapperReset(w, s) ==
  IF NoROM(s) THEN s
  ELSE [Called(SetCurrentImpl(w, s), "retro_reset", w)
          EXCEPT !.core = PowerOn]

\* std::optional results: absent or present.
GetCoreInfo(s) == IF NoCore(s) THEN "nullopt" ELSE "CoreInfo"

GetAVInfo(s) == IF NoROM(s) THEN "nullopt" ELSE "AVInfo"

WrapperGetRAM(s) == IF NoROM(s) THEN <<>> ELSE GetRAM(s.core)

WrapperGetRAMSize(s) == IF NoROM(s) THEN 0 ELSE RamLen

WrapperGetStateSize(s) == IF NoROM(s) THEN 0 ELSE GetStateSize

WrapperSaveState(w, s, buffer) ==
  IF NoROM(s) THEN [st |-> s, ok |-> FALSE, buf |-> buffer]
  ELSE IF Len(buffer) < WrapperGetStateSize(s)
  THEN [st |-> Called(s, "retro_serialize_size", w), ok |-> FALSE,
        buf |-> buffer]
  ELSE LET s1 == Called(s, "retro_serialize_size", w)
           r  == SaveState(s.core, buffer)
       IN  [st |-> Called(SetCurrentImpl(w, s1), "retro_serialize", w),
            ok |-> r.ok, buf |-> r.buf]

WrapperLoadState(w, s, buffer) ==
  IF NoROM(s) THEN [st |-> s, ok |-> FALSE]
  ELSE LET r == LoadState(s.core, buffer)
       IN  [st |-> [Called(SetCurrentImpl(w, s), "retro_unserialize", w)
                      EXCEPT !.core = r.core],
            ok |-> r.ok]

\* LibretroWrapper::GetRAM with the calls it makes into the core.
WrapperGetRAMCalls(w, s) ==
  IF NoROM(s) THEN s
  ELSE Called(Called(s, "retro_get_memory_data", w),
              "retro_get_memory_size", w)

\* ~LibretroWrapper of a wrapper that was not moved from.
Destroy(w, s) == UnloadCore(w, UnloadROM(w, s))

\* Buffers handed to SaveState and LoadState.
StateBuffers == {<<>>, Zeros(GetStateSize)}

\* Store the view s of wrapper w back into the variables.
Publish(w, s) ==
  /\ core_handle' = [core_handle EXCEPT ![w] = s.core_handle]
  /\ rom_loaded' = [rom_loaded EXCEPT ![w] = s.rom_loaded]
  /\ dl_open' = [dl_open EXCEPT ![w] = s.dl_open]
  /\ cores' = [cores EXCEPT ![w] = s.core]
  /\ g_current_impl' = s.cur

WOp(name, w, s) == [Op(name) EXCEPT !.w = w, !.calls = s.calls]

LoadCoreOp(w, dl_ok, present, ver_ok) ==
  /\ halted = "no"
  /\ LET r == LoadCore(w, WState(w), dl_ok, present, ver_ok)
     IN  /\ Publish(w, r.st)
         /\ lastOp' = [WOp("LoadCore", w, r.st) EXCEPT !.ret = r.ret,
                         !.args = <<dl_ok, LoadAllSymbols(present), ver_ok>>]
  /\ UNCHANGED cacheVars
  /\ UNCHANGED efVars
  /\ UNCHANGED halted
  /\ UNCHANGED playVars
  /\ UNCHANGED memories

UnloadCoreOp(w) ==
  /\ halted = "no"
  /\ LET s == UnloadCore(w, WState(w))
     IN  /\ Publish(w, s)
         /\ lastOp' = WOp("UnloadCore", w, s)
  /\ UNCHANGED cacheVars
  /\ UNCHANGED efVars
  /\ UNCHANGED halted
  /\ UNCHANGED playVars
  /\ UNCHANGED memories

LoadROMOp(w, file_ok, game_ok) ==
  /\ halted = "no"
  /\ LET r == LoadROM(w, WState(w), file_ok, game_ok)
     IN  /\ Publish(w, r.st)
         /\ lastOp' = [WOp("LoadROM", w, r.st) EXCEPT !.ret = r.ret,
                         !.args = <<file_ok, game_ok>>]
  /\ UNCHANGED cacheVars
  /\ UNCHANGED efVars
  /\ UNCHANGED halted
  /\ UNCHANGED playVars
  /\ UNCHANGED memories

UnloadROMOp(w) ==
  /\ halted = "no"
  /\ LET s == UnloadROM(w, WState(w))
     IN  /\ Publish(w, s)
         /\ lastOp' = WOp("UnloadROM", w, s)
  /\ UNCHANGED cacheVars
  /\ UNCHANGED efVars
  /\ UNCHANGED halted
  /\ UNCHANGED playVars
  /\ UNCHANGED memories

RunOp(w) ==
  /\ halted = "no"
  /\ LET s == WrapperRun(w, WState(w))
     IN  /\ Publish(w, s)
         /\ lastOp' = WOp("Run", w, s)
  /\ UNCHANGED cacheVars
  /\ UNCHANGED efVars
  /\ UNCHANGED halted
  /\ UNCHANGED playVars
  /\ UNCHANGED memories

ResetOp(w) ==
  /\ halted = "no"
  /\ LET s == WrapperReset(w, WState(w))
     IN  /\ Publish(w, s)
         /\ lastOp' = WOp("Reset", w, s)
  /\ UNCHANGED cacheVars
  /\ UNCHANGED efVars
  /\ UNCHANGED halted
  /\ UNCHANGED playVars
  /\ UNCHANGED memories

SaveStateOp(w, buffer) ==
  /\ halted = "no"
  /\ LET r == WrapperSaveState(w, WState(w), buffer)
     IN  /\ Publish(w, r.st)
         /\ lastOp' = [WOp("SaveState", w, r.st) EXCEPT !.ok = r.ok,
                         !.start = buffer, !.result = r.buf]
  /\ UNCHANGED cacheVars
  /\ UNCHANGED efVars
  /\ UNCHANGED halted
  /\ UNCHANGED playVars
  /\ UNCHANGED memories

LoadStateOp(w, buffer) ==
  /\ halted = "no"
  /\ LET r == WrapperLoadState(w, WState(w), buffer)
     IN  /\ Publish(w, r.st)
         /\ lastOp' = [WOp("LoadState", w, r.st) EXCEPT !.ok = r.ok,
                         !.start = buffer]
  /\ UNCHANGED cacheVars
  /\ UNCHANGED efVars
  /\ UNCHANGED halted
  /\ UNCHANGED playVars
  /\ UNCHANGED memories

GetRAMOp(w) ==
  /\ halted = "no"
  /\ LET s == WrapperGetRAMCalls(w, WState(w))
     IN  /\ Publish(w, s)
         /\ lastOp' = [WOp("GetRAM", w, s) EXCEPT
                         !.result = WrapperGetRAM(WState(w))]
  /\ UNCHANGED cacheVars
  /\ UNCHANGED efVars
  /\ UNCHANGED halted
  /\ UNCHANGED playVars
  /\ UNCHANGED memories

\* The wrapper in slot w is destroyed and a new one constructed in its
\* place.
DestroyOp(w) ==
  /\ halted = "no"
  /\ LET s == Destroy(w, WState(w))
     IN  /\ Publish(w, s)
         /\ lastOp' = WOp("Destroy", w, s)
  /\ UNCHANGED cacheVars
  /\ UNCHANGED efVars
  /\ UNCHANGED halted
  /\ UNCHANGED playVars
  /\ UNCHANGED memories

NextWrap ==
  \/ \E w \in Wrappers, dl_ok \in BOOLEAN, present \in SymbolTables,
        ver_ok \in BOOLEAN : LoadCoreOp(w, dl_ok, present, ver_ok)
  \/ \E w \in Wrappers : UnloadCoreOp(w)
  \/ \E w \in Wrappers, file_ok \in BOOLEAN, game_ok \in BOOLEAN :
       LoadROMOp(w, file_ok, game_ok)
  \/ \E w \in Wrappers : UnloadROMOp(w)
  \/ \E w \in Wrappers : RunOp(w)
  \/ \E w \in Wrappers : ResetOp(w)
  \/ \E w \in Wrappers, buffer \in StateBuffers : SaveStateOp(w, buffer)
  \/ \E w \in Wrappers, buffer \in StateBuffers : LoadStateOp(w, buffer)
  \/ \E w \in Wrappers : GetRAMOp(w)
  \/ \E w \in Wrappers : DestroyOp(w)

SpecWrap == InitEF /\ [][NextWrap]_vars

----------------------------------------------------------------------------
(* The input-state callback and LibretroUtil::IsPressed, applied to every  *)
(* 8-bit mask of either port of a wrapper that is running its core.        *)

\* The masks with the bits of A and B exchanged.
LibretroInputSwapped ==
  [A |-> 2, B |-> 1, SELECT |-> 4, START |-> 8,
   UP |-> 16, DOWN |-> 32, LEFT |-> 64, RIGHT |-> 128]

\* namespace LibretroInput: the bit of each button in a mask.
LibretroInput ==
  [A |-> 1, B |-> 2, SELECT |-> 4, START |-> 8,
   UP |-> 16, DOWN |-> 32, LEFT |-> 64, RIGHT |-> 128]

\* enum JoypadButton, the RETRO_DEVICE_ID_JOYPAD_* ids.
JOYPAD_B      == 0
JOYPAD_Y      == 1
JOYPAD_SELECT == 2
JOYPAD_START  == 3
JOYPAD_UP     == 4
JOYPAD_DOWN   == 5
JOYPAD_LEFT   == 6
JOYPAD_RIGHT  == 7
JOYPAD_A      == 8
JOYPAD_X      == 9
RETRO_DEVICE_ID_JOYPAD_MASK == 256
RETRO_DEVICE_JOYPAD == 1

\* (mask & flag) != 0 for a one-bit flag.
MaskHas(mask, flag) == (mask \div flag) % 2 = 1

\* InputStateCallback(port, device, index, id) with g_current_impl = cur
\* and cur's masks is.
InputStateCallback(cur, is, port, device, index, id) ==
  IF cur = 0 \/ port >= 2 THEN 0
  ELSE IF device # RETRO_DEVICE_JOYPAD THEN 0
  ELSE IF index # 0 THEN 0
  ELSE
    LET mask == is[port + 1]
        One(flag) == IF MaskHas(mask, flag) THEN 1 ELSE 0
    IN  CASE id = JOYPAD_A      -> One(LibretroInput.A)
          [] id = JOYPAD_B      -> One(LibretroInput.B)
          [] id = JOYPAD_SELECT -> One(LibretroInput.SELECT)
          [] id = JOYPAD_START  -> One(LibretroInput.START)
          [] id = JOYPAD_UP     -> One(LibretroInput.UP)
          [] id = JOYPAD_DOWN   -> One(LibretroInput.DOWN)
          [] id = JOYPAD_LEFT   -> One(LibretroInput.LEFT)
          [] id = JOYPAD_RIGHT  -> One(LibretroInput.RIGHT)
          [] id = RETRO_DEVICE_ID_JOYPAD_MASK ->
               One(LibretroInput.B) * (2 ^ JOYPAD_B)
               + One(LibretroInput.A) * (2 ^ JOYPAD_A)
               + One(LibretroInput.SELECT) * (2 ^ JOYPAD_SELECT)
               + One(LibretroInput.START) * (2 ^ JOYPAD_START)
               + One(LibretroInput.UP) * (2 ^ JOYPAD_UP)
               + One(LibretroInput.DOWN) * (2 ^ JOYPAD_DOWN)
               + One(LibretroInput.LEFT) * (2 ^ JOYPAD_LEFT)
               + One(LibretroInput.RIGHT) * (2 ^ JOYPAD_RIGHT)
          [] OTHER -> 0

\* LibretroUtil::IsPressed(fceu_mask, btn).
IsPressed(fceu_mask, btn) ==
  CASE btn = JOYPAD_A      -> MaskHas(fceu_mask, LibretroInput.A)
    [] btn = JOYPAD_B      -> MaskHas(fceu_mask, LibretroInput.B)
    [] btn = JOYPAD_SELECT -> MaskHas(fceu_mask, LibretroInput.SELECT)
    [] btn = JOYPAD_START  -> MaskHas(fceu_mask, LibretroInput.START)
    [] btn = JOYPAD_UP     -> MaskHas(fceu_mask, LibretroInput.UP)
    [] btn = JOYPAD_DOWN   -> MaskHas(fceu_mask, LibretroInput.DOWN)
    [] btn = JOYPAD_LEFT   -> MaskHas(fceu_mask, LibretroInput.LEFT)
    [] btn = JOYPAD_RIGHT  -> MaskHas(fceu_mask, LibretroInput.RIGHT)
    [] OTHER -> FALSE

\* The <<port, device, index>> the core queries the callback with: the
\* joypad of ports 0, 1 and 2, and for ports 0 and 1 also another device
\* (2) and another index (1).
QueryTargets ==
  {<<port, RETRO_DEVICE_JOYPAD, 0>> : port \in 0..2}
  \cup {<<port, 2, 0>> : port \in 0..1}
  \cup {<<port, RETRO_DEVICE_JOYPAD, 1>> : port \in 0..1}

\* The ids queried: the 16 joypad ids, one past them, and the mask id.
QueryIds     == (0..16) \cup {RETRO_DEVICE_ID_JOYPAD_MASK}
JoypadButtons == JOYPAD_B..JOYPAD_X

\* Wrapper 1 has a core and a ROM loaded and is inside retro_run; one of
\* its ports holds an arbitrary 8-bit mask.
InitInput ==
  /\ table = EmptyTable
  /\ limit = DefaultLimit
  /\ slop = DefaultSlop
  /\ count = 0
  /\ next_seq = 0
  /\ hits = 0
  /\ misses = 0
  /\ g_cache = FALSE
  /\ g_wrapper = FALSE
  /\ g_initialized = FALSE
  /\ core = PowerOn
  /\ input_state \in {<<m, 0>> : m \in Byte} \cup {<<0, m>> : m \in Byte}
  /\ PlayIdle
  /\ g_frame_rgba = <<>>
  /\ g_audio_samples = <<>>
  /\ saved = NoSaved
  /\ usaved = NoUSaved
  /\ lastOp = NoOp
  /\ halted = "no"
  /\ core_handle = [w \in Wrappers |-> w = 1]
  /\ rom_loaded = [w \in Wrappers |-> w = 1]
  /\ dl_open = [w \in Wrappers |-> IF w = 1 THEN 1 ELSE 0]
  /\ cores = [w \in Wrappers |-> PowerOn]
  /\ g_current_impl = 1
  /\ memories = NoMemories

InputStateOp(port, device, index, id) ==
  /\ lastOp' = [Op("InputState") EXCEPT
                  !.args = <<port, device, index, id>>,
                  !.val = InputStateCallback(g_current_impl, input_state,
                                             port, device, index, id)]
  /\ UNCHANGED cacheVars
  /\ UNCHANGED efVars
  /\ UNCHANGED wrapVars
  /\ UNCHANGED halted
  /\ UNCHANGED playVars
  /\ UNCHANGED memories

IsPressedOp(fceu_mask, btn) ==
  /\ lastOp' = [Op("IsPressed") EXCEPT
                  !.args = <<fceu_mask, btn>>,
                  !.ok = IsPressed(fceu_mask, btn)]
  /\ UNCHANGED cacheVars
  /\ UNCHANGED efVars
  /\ UNCHANGED wrapVars
  /\ UNCHANGED halted
  /\ UNCHANGED playVars
  /\ UNCHANGED memories

NextInput ==
  \/ \E t \in QueryTargets, id \in QueryIds :
       InputStateOp(t[1], t[2], t[3], id)
  \/ \E port \in {0, 1}, btn \in JoypadButtons :
       IsPressedOp(input_state[port + 1], btn)

SpecInput == InitInput /\ [][NextInput]_vars

----------------------------------------------------------------------------
(* The search program: main has initialized the frontend; PlayFun is       *)
(* constructed, Greedy runs and main shuts the frontend down.  Greedy is   *)
(* followed through its loops: the head of an iteration, the candidates,   *)
(* the trials of the two look-ahead functions and the commit.              *)

\* The frontend as one value.
Emu ==
  [g_wrapper |-> g_wrapper, g_cache |-> g_cache, core |-> core,
   input_state |-> input_state, frame |-> g_frame_rgba,
   audio |-> g_audio_samples, table |-> table, limit |-> limit,
   slop |-> slop, count |-> count, next_seq |-> next_seq, hits |-> hits,
   misses |-> misses]

\* The frontend becomes e.
SetEmu(e) ==
  /\ core' = e.core
  /\ input_state' = e.input_state
  /\ g_frame_rgba' = e.frame
  /\ g_audio_samples' = e.audio
  /\ table' = e.table
  /\ limit' = e.limit
  /\ slop' = e.slop
  /\ count' = e.count
  /\ next_seq' = e.next_seq
  /\ hits' = e.hits
  /\ misses' = e.misses
  /\ UNCHANGED <<g_cache, g_wrapper, g_initialized, saved, usaved, halted>>
  /\ UNCHANGED wrapVars

\* The input movies read from the .fm2 file.
Solutions == {<<>>, <<0, 0>>, <<0, 1, 1>>}

\* The motif banks read from the .motifs file.
MotifBanks == {<< <<1>> >>, << <<0>>, <<1>> >>, << <<>>, <<1, 0>> >>}

\* The objectives read from the .objectives file, with the scoring mode.
ObjectiveSets == {[magnitude |-> FALSE, weight |-> 2 * ScoreUnit],
                  [magnitude |-> TRUE, weight |-> ScoreUnit \div 2]}

\* The states the generators start from.
Seeds == {0, 77}

\* The frontend after EmulatorLibretro::Initialize has returned true.
InitializedEF ==
  /\ table = EmptyTable
  /\ limit = DefaultLimit
  /\ slop = DefaultSlop
  /\ count = 0
  /\ next_seq = 0
  /\ hits = 0
  /\ misses = 0
  /\ g_cache = TRUE
  /\ g_wrapper = TRUE
  /\ g_initialized = TRUE
  /\ core = PowerOn
  /\ input_state = <<0, 0>>
  /\ g_frame_rgba = <<>>
  /\ g_audio_samples = <<>>
  /\ saved = NoSaved
  /\ usaved = NoUSaved
  /\ lastOp = NoOp
  /\ halted = "no"
  /\ core_handle = [w \in Wrappers |-> FALSE]
  /\ rom_loaded = [w \in Wrappers |-> FALSE]
  /\ dl_open = [w \in Wrappers |-> 0]
  /\ cores = [w \in Wrappers |-> PowerOn]
  /\ g_current_impl = 0

InitPlay ==
  /\ InitializedEF
  /\ solution \in Solutions
  /\ motifvec \in MotifBanks
  /\ objectives \in ObjectiveSets
  /\ rc \in Seeds
  /\ rnd \in Seeds
  /\ movie = <<>>
  /\ recent_futures = <<>>
  /\ avoid_depths = AvoidDefault
  /\ seek_depths = SeekDefault
  /\ motif_scores = <<>>
  /\ motif_uses = 0
  /\ greedy = NoGreedy
  /\ pc = "ctor"
  /\ replayed = NoReplay
  /\ memories = NoMemories

\* The frontend right after a successful Initialize.
PostInitialize ==
  [g_wrapper |-> TRUE, g_cache |-> TRUE, core |-> PowerOn,
   input_state |-> <<0, 0>>, frame |-> <<>>, audio |-> <<>>,
   table |-> EmptyTable, limit |-> DefaultLimit, slop |-> DefaultSlop,
   count |-> 0, next_seq |-> 0, hits |-> 0, misses |-> 0]

RECURSIVE Replay(_, _)
\* The frontend after one Step for each byte of m, in order, from e.
Replay(e, m) ==
  IF m = <<>> THEN e
  ELSE Only({Replay(e1, Tail(m)) : e1 \in {StepE(e, Head(m))}})

\* The bytes by which the movie has grown from old to new.
Appended(old, new) == SubSeq(new, Len(old) + 1, Len(new))

\* movie.push_back(b) leaving the movie as it is.
PushBackDropped(m, b) == m

\* movie.push_back(b).
PushBack(m, b) == Append(m, b)

RECURSIVE SkipLoop(_, _, _, _)
\* The while loop of the constructor from position start.
SkipLoop(e, sol, mov, start) ==
  IF ~(start < Len(sol)) THEN [e |-> e, movie |-> mov, start |-> start]
  ELSE Only({IF sol[start + 1] # 0
             THEN [e |-> e1, movie |-> m1, start |-> start]
             ELSE SkipLoop(e1, sol, m1, start + 1) :
               e1 \in {StepE(e, sol[start + 1])},
               m1 \in {PushBack(mov, sol[start + 1])}})

\* PlayFun::PlayFun(game, movie_file).
Construct ==
  /\ pc = "ctor"
  /\ halted = "no"
  /\ \E r \in {SkipLoop(ResetCacheE(Emu, CacheStates, CacheSlop), solution,
                        movie, 0)} :
       /\ SetEmu(r.e)
       /\ movie' = r.movie
       /\ replayed' = Replay(PostInitialize, r.movie)
       /\ lastOp' = [Op("PlayFun") EXCEPT !.val = r.start]
  /\ pc' = "loop"
  /\ UNCHANGED <<solution, motifvec, objectives, rc, rnd, recent_futures,
                 avoid_depths, seek_depths, motif_scores, motif_uses, greedy>>
  /\ UNCHANGED memories

\* The head of an iteration of Greedy: the snapshot of the state and of
\* the memory and the selection of the motifs to try.
GreedyBegin ==
  /\ pc = "loop"
  /\ halted = "no"
  /\ greedy.framenum < NUMFRAMES
  /\ \E sel \in {SelectMotifsToTry(motifvec, motif_scores, motif_uses,
                                   rc, rnd)} :
       /\ greedy' = [greedy EXCEPT
                       !.current_state = SaveUncompressedE(Emu),
                       !.current_memory = GetMemoryE(Emu),
                       !.motifs_to_try = sel.selected,
                       !.best_score = WorstScore,
                       !.best_future = 0,
                       !.best_immediate = 0,
                       !.best_motif_idx = 0,
                       !.trial = 0,
                       !.totals = <<>>]
       /\ rc' = sel.rc
       /\ rnd' = sel.rnd
       /\ pc' = IF sel.selected = <<>> THEN "commit" ELSE "trial"
       /\ lastOp' = [Op("SelectMotifsToTry") EXCEPT !.args = sel.selected]
  /\ UNCHANGED cacheVars
  /\ UNCHANGED efVars
  /\ UNCHANGED halted
  /\ UNCHANGED wrapVars
  /\ UNCHANGED <<solution, motifvec, objectives, movie, recent_futures,
                 avoid_depths, seek_depths, motif_scores, motif_uses,
                 replayed>>
  /\ UNCHANGED memories

\* The body of the loop over the candidates up to the call of
\* AvoidBadFutures(new_memory), and the entry of that call: e1 is the
\* frontend the motif is applied to, e2 the frontend after the motif.
Candidate ==
  /\ pc = "trial"
  /\ halted = "no"
  /\ \E motif_idx \in {greedy.motifs_to_try[greedy.trial + 1]} :
     \E e1 \in {IF NotFirst(greedy.trial)
                THEN LoadUncompressedE(Emu, greedy.current_state)
                ELSE Emu} :
     \E e2 \in {CachingSteps(e1, motifvec[motif_idx + 1])} :
     \E new_memory \in {GetMemoryE(e2)} :
       /\ SetEmu(e2)
       /\ greedy' = [greedy EXCEPT
                       !.new_memory = new_memory,
                       !.new_state = SaveUncompressedE(e2),
                       !.immediate_score =
                          ScoreChange(objectives, greedy.current_memory,
                                      new_memory),
                       !.base_state = SaveUncompressedE(e2),
                       !.base_memory = new_memory,
                       !.total = Placeholder,
                       !.i = 0]
       /\ lastOp' = [Op("Candidate") EXCEPT !.val = motif_idx,
                       !.start = SaveUncompressedE(e1)]
  /\ pc' = "avoid"
  /\ UNCHANGED <<solution, motifvec, objectives, rc, rnd, movie,
                 recent_futures, avoid_depths, seek_depths, motif_scores,
                 motif_uses,
                 replayed>>
  /\ UNCHANGED memories

\* One trial of AvoidBadFutures; after the last one the function returns,
\* Greedy reloads new_state and enters SeekGoodFutures(new_memory).
AvoidStep ==
  /\ pc = "avoid"
  /\ halted = "no"
  /\ \E i \in {greedy.i} :
     \E p \in {RandomPicks(motifvec, rnd, Rollout(avoid_depths[i + 1]))} :
     \E r \in {AvoidTrial(Emu, objectives, motifvec, greedy.base_state,
                          greedy.base_memory, i, p.picks, greedy.total)} :
       /\ rnd' = p.rnd
       /\ lastOp' = [Op("AvoidTrial") EXCEPT !.input = i, !.val = r.total,
                       !.start = r.start, !.args = r.scores]
       /\ IF i + 1 < Len(avoid_depths)
          THEN /\ SetEmu(r.e)
               /\ greedy' = [greedy EXCEPT !.total = r.total, !.i = i + 1]
               /\ pc' = "avoid"
          ELSE \E e3 \in {LoadUncompressedE(r.e, greedy.new_state)} :
               /\ SetEmu(e3)
               /\ greedy' = [greedy EXCEPT
                               !.future_score = r.total,
                               !.base_state = SaveUncompressedE(e3),
                               !.base_memory = greedy.new_memory,
                               !.total = Placeholder,
                               !.i = 0]
               /\ pc' = "seek"
  /\ UNCHANGED <<solution, motifvec, objectives, rc, movie, recent_futures,
                 avoid_depths, seek_depths, motif_scores, motif_uses,
                 replayed>>
  /\ UNCHANGED memories

\* One trial of SeekGoodFutures; after the last one the function returns
\* and the candidate is scored, its motif's average updated and the best
\* candidate so far kept.
SeekStep ==
  /\ pc = "seek"
  /\ halted = "no"
  /\ \E i \in {greedy.i} :
     \E p \in {RandomPicks(motifvec, rnd, Rollout(seek_depths[i + 1]))} :
     \E r \in {SeekTrial(Emu, objectives, motifvec, greedy.base_state,
                         greedy.base_memory, i, p.picks, greedy.total)} :
       /\ rnd' = p.rnd
       /\ SetEmu(r.e)
       /\ lastOp' = [Op("SeekTrial") EXCEPT !.input = i, !.val = r.total,
                       !.start = r.start, !.args = r.scores]
       /\ IF i + 1 < Len(seek_depths)
          THEN /\ greedy' = [greedy EXCEPT !.total = r.total, !.i = i + 1]
               /\ pc' = "seek"
               /\ UNCHANGED <<motif_scores, motif_uses>>
          ELSE \E motif_idx \in {greedy.motifs_to_try[greedy.trial + 1]} :
               \E future_score \in {greedy.future_score + r.total} :
               \E score \in {greedy.immediate_score + future_score} :
               \E u \in {UpdateMotifScore(motifvec, motif_scores, motif_uses,
                                          motif_idx, score)} :
               \E g1 \in {[greedy EXCEPT
                             !.future_score = future_score,
                             !.total = r.total,
                             !.trial = @ + 1,
                             !.totals = Append(@, <<motif_idx, score>>)]} :
                 /\ greedy' = IF score > greedy.best_score
                              THEN [g1 EXCEPT
                                      !.best_score = score,
                                      !.best_immediate = greedy.immediate_score,
                                      !.best_future = future_score,
                                      !.best_motif_idx = motif_idx]
                              ELSE g1
                 /\ motif_scores' = u.motif_scores
                 /\ motif_uses' = u.motif_uses
                 /\ pc' = IF greedy.trial + 1 < Len(greedy.motifs_to_try)
                          THEN "trial" ELSE "commit"
  /\ UNCHANGED <<solution, motifvec, objectives, rc, movie, recent_futures,
                 avoid_depths, seek_depths,
                 replayed>>
  /\ UNCHANGED memories

RECURSIVE CommitLoop(_, _, _)
\* for each byte of best_motif: CachingStep(byte); movie.push_back(byte);
CommitLoop(e, mov, m) ==
  IF m = <<>> THEN [e |-> e, movie |-> mov]
  ELSE Only({CommitLoop(e1, m1, Tail(m)) :
               e1 \in {CachingStepE(e, Head(m))},
               m1 \in {PushBack(mov, Head(m))}})

\* The loop counter advanced by two.
SkipFrame(framenum) == framenum + 2

\* framenum++ of the loop of Greedy.
NextFrame(framenum) == framenum + 1

\* The tail of an iteration of Greedy: the future score of the winner is
\* recorded, the depths adapted, the state of the start of the iteration
\* reloaded (e1) and the winning motif played and appended to the movie.
Commit ==
  /\ pc = "commit"
  /\ halted = "no"
  /\ \E h \in {RecordFutureScore(recent_futures, greedy.best_future)} :
     \E a \in {AdaptFutureDepths(h, avoid_depths, seek_depths)} :
     \E e1 \in {LoadUncompressedE(Emu, greedy.current_state)} :
     \E r \in {CommitLoop(e1, movie, motifvec[greedy.best_motif_idx + 1])} :
       /\ recent_futures' = h
       /\ avoid_depths' = a.avoid
       /\ seek_depths' = a.seek
       /\ SetEmu(r.e)
       /\ movie' = r.movie
       /\ replayed' = Replay(replayed, Appended(movie, r.movie))
       /\ lastOp' = [Op("Commit") EXCEPT !.val = greedy.best_motif_idx,
                       !.start = SaveUncompressedE(e1)]
  /\ greedy' = [greedy EXCEPT !.framenum = NextFrame(@)]
  /\ pc' = "loop"
  /\ UNCHANGED <<solution, motifvec, objectives, rc, rnd, motif_scores,
                 motif_uses>>
  /\ UNCHANGED memories

\* The end of Greedy: the final movie is written.
GreedyEnd ==
  /\ pc = "loop"
  /\ halted = "no"
  /\ ~(greedy.framenum < NUMFRAMES)
  /\ pc' = "done"
  /\ lastOp' = [Op("WriteInputs") EXCEPT !.args = movie]
  /\ UNCHANGED cacheVars
  /\ UNCHANGED efVars
  /\ UNCHANGED halted
  /\ UNCHANGED wrapVars
  /\ UNCHANGED <<solution, motifvec, objectives, rc, rnd, movie,
                 recent_futures, avoid_depths, seek_depths, motif_scores,
                 motif_uses, greedy,
                 replayed>>
  /\ UNCHANGED memories

\* EmulatorLibretro::Shutdown() at the end of main.
MainShutdown ==
  /\ pc = "done"
  /\ g_initialized
  /\ Shutdown

NextPlay ==
  \/ Construct
  \/ GreedyBegin
  \/ Candidate
  \/ AvoidStep
  \/ SeekStep
  \/ Commit
  \/ GreedyEnd
  \/ MainShutdown

SpecPlay == InitPlay /\ [][NextPlay]_vars

\* The search program as the one thread of its process, which keeps running
\* while it has a next statement.
FairPlay == SpecPlay /\ WF_vars(NextPlay)

----------------------------------------------------------------------------
(* The selection of the motifs on its own: rounds of Greedy in which the    *)
(* total of a candidate is any score, from any state the statistics of the  *)
(* motifs can be in around the end of the early phase.                      *)

\* The motif banks the selection is applied to.
SelectBanks == MotifBanks \cup {<< <<0>>, <<1>>, <<0, 1>> >>}

\* The averages a motif can have gathered.
ScoreLevels == {0, 40, 90}

\* The totals of a candidate.
CandidateScores == {0, 3 * ScoreUnit}

\* The states of rc the selection starts from: with the further two, the
\* bytes drawn for a rest of two indices are 13, 68 and 102, 1.
SelectSeeds == Seeds \cup {2, 71}

InitSelect ==
  /\ InitializedEF
  /\ solution = <<>>
  /\ motifvec \in SelectBanks
  /\ objectives = NoObjectives
  /\ rc \in SelectSeeds
  /\ rnd \in Seeds
  /\ movie = <<>>
  /\ recent_futures = <<>>
  /\ avoid_depths = AvoidDefault
  /\ seek_depths = SeekDefault
  /\ motif_uses \in {0, EarlyUses - 1, EarlyUses}
  /\ motif_scores \in IF motif_uses = 0 THEN {<<>>}
                      ELSE [1..Len(motifvec) -> ScoreLevels]
  /\ greedy = NoGreedy
  /\ pc = "select"
  /\ replayed = NoReplay
  /\ memories = NoMemories

\* std::vector<size_t> motifs_to_try = SelectMotifsToTry(); at the head of
\* an iteration of Greedy.
SelectOp ==
  /\ pc = "select"
  /\ greedy.framenum < MaxRounds
  /\ \E sel \in {SelectMotifsToTry(motifvec, motif_scores, motif_uses,
                                   rc, rnd)} :
       /\ greedy' = [greedy EXCEPT !.motifs_to_try = sel.selected,
                                   !.trial = 0]
       /\ rc' = sel.rc
       /\ rnd' = sel.rnd
       /\ pc' = IF sel.selected = <<>> THEN "selected" ELSE "update"
       /\ lastOp' = [Op("SelectMotifsToTry") EXCEPT !.args = sel.selected]
  /\ UNCHANGED cacheVars
  /\ UNCHANGED efVars
  /\ UNCHANGED halted
  /\ UNCHANGED wrapVars
  /\ UNCHANGED <<solution, motifvec, objectives, movie, recent_futures,
                 avoid_depths, seek_depths, motif_scores, motif_uses,
                 replayed>>
  /\ UNCHANGED memories

\* UpdateMotifScore(motif_idx, score) for the next candidate of the round.
UpdateMotifScoreOp(score) ==
  /\ pc = "update"
  /\ \E motif_idx \in {greedy.motifs_to_try[greedy.trial + 1]} :
     \E u \in {UpdateMotifScore(motifvec, motif_scores, motif_uses,
                                motif_idx, score)} :
       /\ motif_scores' = u.motif_scores
       /\ motif_uses' = u.motif_uses
       /\ lastOp' = [Op("UpdateMotifScore") EXCEPT !.input = motif_idx,
                       !.val = score]
  /\ greedy' = [greedy EXCEPT !.trial = @ + 1]
  /\ pc' = IF greedy.trial + 1 < Len(greedy.motifs_to_try)
           THEN "update" ELSE "selected"
  /\ UNCHANGED cacheVars
  /\ UNCHANGED efVars
  /\ UNCHANGED halted
  /\ UNCHANGED wrapVars
  /\ UNCHANGED <<solution, motifvec, objectives, rc, rnd, movie,
                 recent_futures, avoid_depths, seek_depths, replayed>>
  /\ UNCHANGED memories

\* The end of the round: the next frame.
NextRound ==
  /\ pc = "selected"
  /\ greedy' = [greedy EXCEPT !.framenum = @ + 1]
  /\ pc' = "select"
  /\ lastOp' = Op("NextRound")
  /\ UNCHANGED cacheVars
  /\ UNCHANGED efVars
  /\ UNCHANGED halted
  /\ UNCHANGED wrapVars
  /\ UNCHANGED <<solution, motifvec, objectives, rc, rnd, movie,
                 recent_futures, avoid_depths, seek_depths, motif_scores,
                 motif_uses, replayed>>
  /\ UNCHANGED memories

NextSelect ==
  \/ SelectOp
  \/ \E score \in CandidateScores : UpdateMotifScoreOp(score)
  \/ NextRound

SpecSelect == InitSelect /\ [][NextSelect]_vars

----------------------------------------------------------------------------
(* The tracking of the future scores on its own: the two calls at the end   *)
(* of an iteration of Greedy, for any best_future, from histories around    *)
(* the sizes and the averages where the behaviour changes.                  *)

\* The sizes of the history Greedy is followed from.
WindowLens == {0, HISTORY_SIZE \div 2 - 2, HISTORY_SIZE \div 2 - 1,
               HISTORY_SIZE \div 2, HISTORY_SIZE - 1, HISTORY_SIZE}

\* The numbers of values of 1.0 in such a history.
WindowOnes == {0, 7, 8, 14, 15, 16, 17, 18, 34, 35, 36}

\* The values of best_future: -1.0, 0.0, 0.5, 1.0 and 3.0.
FutureScores == {0 - ScoreUnit, 0, ScoreUnit \div 2, ScoreUnit, 3 * ScoreUnit}

\* A history of k values: a of 1.0, b of 0.5 and the rest 0.0, the oldest
\* being the values of 1.0 or, when rev, the values of 0.0.
Window(k, a, b, rev) ==
  [i \in 1..k |->
     LET j == IF rev THEN k + 1 - i ELSE i
     IN  IF j <= a THEN ScoreUnit
         ELSE IF j <= a + b THEN ScoreUnit \div 2
         ELSE 0]

Windows ==
  {Window(k, a, b, rev) :
     k \in WindowLens, a \in WindowOnes, b \in 0..1, rev \in BOOLEAN}

InitAdapt ==
  /\ InitializedEF
  /\ solution = <<>>
  /\ motifvec \in MotifBanks
  /\ objectives = NoObjectives
  /\ rc = 0
  /\ rnd = 0
  /\ movie = <<>>
  /\ recent_futures \in {w \in Windows : Len(w) <= HISTORY_SIZE}
  /\ \E d \in {AdaptFutureDepths(recent_futures, AvoidDefault, SeekDefault)} :
       /\ avoid_depths = d.avoid
       /\ seek_depths = d.seek
  /\ motif_scores = <<>>
  /\ motif_uses = 0
  /\ greedy = NoGreedy
  /\ pc = "track"
  /\ replayed = NoReplay
  /\ memories = NoMemories

\* RecordFutureScore(best_future); AdaptFutureDepths(); at the end of an
\* iteration of Greedy.
TrackFuture(best_future) ==
  /\ pc = "track"
  /\ greedy.framenum < MaxRounds
  /\ \E h \in {RecordFutureScore(recent_futures, best_future)} :
     \E d \in {AdaptFutureDepths(h, avoid_depths, seek_depths)} :
       /\ recent_futures' = h
       /\ avoid_depths' = d.avoid
       /\ seek_depths' = d.seek
  /\ greedy' = [greedy EXCEPT !.framenum = @ + 1,
                              !.best_future = best_future]
  /\ lastOp' = [Op("TrackFuture") EXCEPT !.val = best_future]
  /\ UNCHANGED cacheVars
  /\ UNCHANGED efVars
  /\ UNCHANGED halted
  /\ UNCHANGED wrapVars
  /\ UNCHANGED <<solution, motifvec, objectives, rc, rnd, movie,
                 motif_scores, motif_uses, pc, replayed>>
  /\ UNCHANGED memories

NextAdapt == \E best_future \in FutureScores : TrackFuture(best_future)

SpecAdapt == InitAdapt /\ [][NextAdapt]_vars

----------------------------------------------------------------------------
(* The two look-ahead functions on their own: a candidate motif is applied  *)
(* as in Greedy, then AvoidBadFutures or SeekGoodFutures is called on the   *)
(* memory after it, RandomWeightedMotif returning any motifs of the bank.   *)

\* The motif banks the look-ahead is applied to.
FutureBanks == MotifBanks \cup {<< <<>>, <<1>> >>}

\* The motifs RandomWeightedMotif can return during a rollout of k motifs.
PickSeqs(bank, k) == [1..k -> 0..(Len(bank) - 1)]

InitFuture ==
  /\ InitializedEF
  /\ solution = <<>>
  /\ motifvec \in FutureBanks
  /\ objectives \in ObjectiveSets
  /\ rc = 0
  /\ rnd = 0
  /\ movie = <<>>
  /\ recent_futures = <<>>
  /\ avoid_depths = AvoidDefault
  /\ seek_depths = SeekDefault
  /\ motif_scores = <<>>
  /\ motif_uses = 0
  /\ greedy = NoGreedy
  /\ pc = "apply"
  /\ replayed = NoReplay
  /\ memories = NoMemories

\* The bytes of the candidate motif are applied and the memory and the
\* state after it are taken.
ApplyMotif(motif_idx) ==
  /\ pc = "apply"
  /\ halted = "no"
  /\ greedy.trial < MaxRounds
  /\ \E e2 \in {CachingSteps(Emu, motifvec[motif_idx + 1])} :
       /\ SetEmu(e2)
       /\ greedy' = [greedy EXCEPT !.trial = @ + 1,
                                   !.new_memory = GetMemoryE(e2),
                                   !.new_state = SaveUncompressedE(e2)]
  /\ lastOp' = [Op("ApplyMotif") EXCEPT !.val = motif_idx]
  /\ UNCHANGED <<solution, motifvec, objectives, rc, rnd, movie,
                 recent_futures, avoid_depths, seek_depths, motif_scores,
                 motif_uses, pc, replayed>>
  /\ UNCHANGED memories

\* AvoidBadFutures(new_memory), its two trials rolling out the motifs
\* picks0 and picks1.
AvoidBadFuturesOp(picks0, picks1) ==
  /\ pc = "apply"
  /\ halted = "no"
  /\ greedy.trial > 0
  /\ \E base_state \in {SaveUncompressedE(Emu)} :
     \E r0 \in {AvoidTrial(Emu, objectives, motifvec, base_state,
                           greedy.new_memory, 0, picks0, Placeholder)} :
     \E r1 \in {AvoidTrial(r0.e, objectives, motifvec, base_state,
                           greedy.new_memory, 1, picks1, r0.total)} :
       /\ SetEmu(r1.e)
       /\ greedy' = [greedy EXCEPT !.base_state = base_state,
                                   !.base_memory = greedy.new_memory,
                                   !.future_score = r1.total]
       /\ lastOp' = [Op("AvoidBadFutures") EXCEPT
                       !.start = base_state,
                       !.calls = <<picks0, picks1>>,
                       !.args = r0.scores \o r1.scores,
                       !.val = r1.total]
  /\ pc' = "returned"
  /\ UNCHANGED <<solution, motifvec, objectives, rc, rnd, movie,
                 recent_futures, avoid_depths, seek_depths, motif_scores,
                 motif_uses, replayed>>
  /\ UNCHANGED memories

\* SeekGoodFutures(new_memory), its three trials rolling out the motifs
\* picks0, picks1 and picks2.
SeekGoodFuturesOp(picks0, picks1, picks2) ==
  /\ pc = "apply"
  /\ halted = "no"
  /\ greedy.trial > 0
  /\ \E base_state \in {SaveUncompressedE(Emu)} :
     \E r0 \in {SeekTrial(Emu, objectives, motifvec, base_state,
                          greedy.new_memory, 0, picks0, Placeholder)} :
     \E r1 \in {SeekTrial(r0.e, objectives, motifvec, base_state,
                          greedy.new_memory, 1, picks1, r0.total)} :
     \E r2 \in {SeekTrial(r1.e, objectives, motifvec, base_state,
                          greedy.new_memory, 2, picks2, r1.total)} :
       /\ SetEmu(r2.e)
       /\ greedy' = [greedy EXCEPT !.base_state = base_state,
                                   !.base_memory = greedy.new_memory,
                                   !.future_score = r2.total]
       /\ lastOp' = [Op("SeekGoodFutures") EXCEPT
                       !.start = base_state,
                       !.calls = <<picks0, picks1, picks2>>,
                       !.args = r0.scores \o r1.scores \o r2.scores,
                       !.val = r2.total]
  /\ pc' = "returned"
  /\ UNCHANGED <<solution, motifvec, objectives, rc, rnd, movie,
                 recent_futures, avoid_depths, seek_depths, motif_scores,
                 motif_uses, replayed>>
  /\ UNCHANGED memories

NextFuture ==
  \/ \E motif_idx \in 0..(Len(motifvec) - 1) : ApplyMotif(motif_idx)
  \/ \E picks0 \in PickSeqs(motifvec, Rollout(avoid_depths[1])) :
     \E picks1 \in PickSeqs(motifvec, Rollout(avoid_depths[2])) :
       AvoidBadFuturesOp(picks0, picks1)
  \/ \E picks0 \in PickSeqs(motifvec, Rollout(seek_depths[1])) :
     \E picks1 \in PickSeqs(motifvec, Rollout(seek_depths[2])) :
     \E picks2 \in PickSeqs(motifvec, Rollout(seek_depths[3])) :
       SeekGoodFuturesOp(picks0, picks1, picks2)

SpecFuture == InitFuture /\ [][NextFuture]_vars

----------------------------------------------------------------------------
(* Objective: enumeration of the orderings of memory locations under which  *)
(* a list of memories is lexicographically non-decreasing.  Locations and   *)
(* indices into memories are 0-based, as in the code.                       *)

NumLocations == 2   \* bytes of each memory handed to the constructor
MaxMemories  == 3   \* largest number of memories handed to the constructor

\* Values of the bytes of the memories.
ObjBytes == {0, 255}

\* The memories handed to the constructor: not empty (the CHECK of the
\* constructor), all of the same length.
MemoryLists ==
  UNION {[1..k -> [1..NumLocations -> ObjBytes]] : k \in 1..MaxMemories}

\* The limits and seeds handed to the enumerations.
ObjLimits == {-1, 1}

ObjSeeds == {0, 1}

RECURSIVE BitXor(_, _)
\* a ^ b on non-negative integers.
BitXor(a, b) ==
  IF a = 0 THEN b
  ELSE IF b = 0 THEN a
  ELSE ((a + b) % 2) + 2 * BitXor(a \div 2, b \div 2)

\* CompareByHash::CrapHash: rounds of rotations, multiplications and
\* exclusive-ors on 64 bits, stood for by a mixing of a and seed on small
\* integers; the order it puts the candidates in is arbitrary in both.
CrapHash(a, seed) == ((a + 1) * 31337 + (seed % 1024) * 131 + 17) % 257

RECURSIVE SortByHash(_, _)
\* std::sort(v->begin(), v->end(), CompareByHash(seed)).
SortByHash(v, seed) ==
  IF v = <<>> THEN <<>>
  ELSE LET m == CHOOSE i \in 1..Len(v) :
                  \A j \in 1..Len(v) :
                    \/ CrapHash(v[i], seed) < CrapHash(v[j], seed)
                    \/ (CrapHash(v[i], seed) = CrapHash(v[j], seed) /\ i <= j)
       IN  <<v[m]>> \o SortByHash(SubSeq(v, 1, m - 1)
                                    \o SubSeq(v, m + 1, Len(v)), seed)

EqualOnPrefix(mem1, mem2, prefix) ==
  \A i \in 1..Len(prefix) : mem1[prefix[i] + 1] = mem2[prefix[i] + 1]

RECURSIVE LessEqualFrom(_, _, _, _)
\* The loop of LessEqual from position i of order.
LessEqualFrom(mem1, mem2, order, i) ==
  IF i > Len(order) THEN TRUE
  ELSE LET p == order[i]
       IN  IF mem1[p + 1] > mem2[p + 1] THEN FALSE
           ELSE IF mem1[p + 1] < mem2[p + 1] THEN TRUE
           ELSE LessEqualFrom(mem1, mem2, order, i + 1)

LessEqual(mem1, mem2, order) == LessEqualFrom(mem1, mem2, order, 1)

\* The test that keeps a location from being a candidate, never made.
DecreasesNever(a, b) == FALSE

\* if (memories[i][c] > memories[j][c])
Decreases(a, b) == a > b

\* lequal: the positions lo of look where look[lo] and look[lo + 1] are
\* equal on the prefix.
Lequal(mems, look, prefix) ==
  {lo \in 1..(Len(look) - 1) :
     EqualOnPrefix(mems[look[lo] + 1], mems[look[lo + 1] + 1], prefix)}

\* What EnumeratePartial does with location c of left: skipped when it is
\* in the prefix, kept in remain only when some pair decreases, a
\* candidate when no pair decreases and one increases, else filtered.
Classify(mems, look, prefix, c) ==
  LET le == Lequal(mems, look, prefix)
  IN  IF \E i \in 1..Len(prefix) : prefix[i] = c THEN "skip"
      ELSE IF \E lo \in le : Decreases(mems[look[lo] + 1][c + 1],
                                       mems[look[lo + 1] + 1][c + 1])
      THEN "remain"
      ELSE IF \E lo \in le : mems[look[lo] + 1][c + 1]
                               < mems[look[lo + 1] + 1][c + 1]
      THEN "candidate"
      ELSE "filtered"

\* The elements of seq v that are in set S, in order.
Keep(v, S) ==
  LET In(x) == x \in S
  IN  SelectSeq(v, In)

EnumeratePartial(mems, look, prefix, left) ==
  LET cls == [i \in 1..Len(left) |-> Classify(mems, look, prefix, left[i])]
      rem == {left[i] : i \in {j \in 1..Len(left) :
                                 cls[j] \in {"remain", "candidate"}}}
      can == {left[i] : i \in {j \in 1..Len(left) : cls[j] = "candidate"}}
  IN  [remain |-> Keep(left, rem), candidates |-> Keep(left, can)]

\* CheckOrdering: TRUE when it returns, FALSE when it aborts.
CheckOrdering(mems, look, ordering) ==
  \A lo \in 1..(Len(look) - 1) :
    LessEqual(mems[look[lo] + 1], mems[look[lo + 1] + 1], ordering)

RECURSIVE EnumeratePartialRec(_, _, _, _, _, _)
RECURSIVE ExtendPrefix(_, _, _, _, _, _, _, _)
\* EnumeratePartialRec: the orderings handed to f, the value *limit is left
\* with, and whether CheckOrdering let the program go on.
EnumeratePartialRec(mems, look, prefix, left, lim, seed) ==
  LET ep    == EnumeratePartial(mems, look, prefix, left)
      seed1 == IF seed # 0
               THEN BitXor(seed + lim + Len(prefix) + look[1] * 8,
                           Len(look))
               ELSE seed
      cands == IF seed # 0 THEN SortByHash(ep.candidates, seed1)
               ELSE ep.candidates
  IN  IF cands = <<>>
      THEN IF CheckOrdering(mems, look, prefix)
           THEN [out |-> <<prefix>>,
                 limit |-> IF lim > 0 THEN lim - 1 ELSE lim,
                 ok |-> TRUE]
           ELSE [out |-> <<>>, limit |-> lim, ok |-> FALSE]
      ELSE ExtendPrefix(mems, look, prefix, ep.remain, cands, 1, lim,
                        seed1)

\* The loop of EnumeratePartialRec over the candidates from position i.
ExtendPrefix(mems, look, prefix, remain, cands, i, lim, seed) ==
  IF i > Len(cands) THEN [out |-> <<>>, limit |-> lim, ok |-> TRUE]
  ELSE LET r == EnumeratePartialRec(mems, look, Append(prefix, cands[i]),
                                    remain, lim, seed)
       IN  IF ~r.ok \/ r.limit = 0 THEN r
           ELSE LET t == ExtendPrefix(mems, look, prefix, remain, cands,
                                      i + 1, r.limit, seed)
                IN  [out |-> r.out \o t.out, limit |-> t.limit,
                     ok |-> t.ok]

EnumerateFull(mems, look, lim, seed) ==
  EnumeratePartialRec(mems, look, <<>>,
                      [i \in 1..Len(mems[1]) |-> i - 1], lim, seed)

\* look of EnumerateFullAll: the indices of the memories that differ from
\* the memory before them.
Look(mems) ==
  Keep([i \in 1..Len(mems) |-> i - 1],
       {i \in 0..(Len(mems) - 1) : ~(i > 0 /\ mems[i + 1] = mems[i])})

EnumerateFullAll(mems, lim, seed) ==
  EnumerateFull(mems, Look(mems), lim, seed)

\* inverted_memories: every byte b replaced by 255 - b.
Inverted(mems) ==
  [i \in 1..Len(mems) |-> [j \in 1..Len(mems[i]) |-> 255 - mems[i][j]]]

\* negated.push_back(-idx) for every idx of ordering.
Negated(ordering) == [k \in 1..Len(ordering) |-> 0 - ordering[k]]

\* seed + 12345, the seed of the pass over the inverted memories.
DecreasingSeed(seed) == seed + 12345

\* EnumerateFullAllWithDecreasing: the orderings handed to f, of which the
\* first `first` come from the pass over memories and the others, negated,
\* from the pass over the inverted memories.
EnumerateFullAllWithDecreasing(mems, lim, seed) ==
  LET half_limit == IF lim > 0 THEN lim \div 2 ELSE -1
      remaining  == IF lim > 0 THEN lim - half_limit ELSE -1
      a == EnumerateFullAll(mems, half_limit, seed)
      b == IF a.ok
           THEN EnumerateFullAll(Inverted(mems), remaining,
                                 DecreasingSeed(seed))
           ELSE [out |-> <<>>, limit |-> remaining, ok |-> FALSE]
  IN  [out |-> a.out \o (IF b.ok
                         THEN [k \in 1..Len(b.out) |-> Negated(b.out[k])]
                         ELSE <<>>),
       first |-> Len(a.out),
       ok |-> a.ok /\ b.ok]

InitObj ==
  /\ InitCommon
  /\ g_cache = FALSE
  /\ g_wrapper = FALSE
  /\ g_initialized = FALSE
  /\ memories \in MemoryLists

EnumerateFullAllOp(lim, seed) ==
  /\ halted = "no"
  /\ \E r \in {EnumerateFullAll(memories, lim, seed)} :
       /\ lastOp' = [Op("EnumerateFullAll") EXCEPT
                       !.args = <<lim, seed>>, !.orderings = r.out,
                       !.val = Len(r.out), !.ok = r.ok]
       /\ halted' = IF r.ok THEN "no" ELSE "abort"
  /\ UNCHANGED cacheVars
  /\ UNCHANGED efVars
  /\ UNCHANGED wrapVars
  /\ UNCHANGED playVars
  /\ UNCHANGED memories

EnumerateFullAllWithDecreasingOp(lim, seed) ==
  /\ halted = "no"
  /\ \E r \in {EnumerateFullAllWithDecreasing(memories, lim, seed)} :
       /\ lastOp' = [Op("EnumerateFullAllWithDecreasing") EXCEPT
                       !.args = <<lim, seed>>, !.orderings = r.out,
                       !.val = r.first, !.ok = r.ok]
       /\ halted' = IF r.ok THEN "no" ELSE "abort"
  /\ UNCHANGED cacheVars
  /\ UNCHANGED efVars
  /\ UNCHANGED wrapVars
  /\ UNCHANGED playVars
  /\ UNCHANGED memories

NextObj ==
  \/ \E lim \in ObjLimits, seed \in ObjSeeds :
       EnumerateFullAllOp(lim, seed)
  \/ \E lim \in ObjLimits, seed \in ObjSeeds :
       EnumerateFullAllWithDecreasingOp(lim, seed)

SpecObj == InitObj /\ [][NextObj]_vars

----------------------------------------------------------------------------
(* Claims about the enumeration of orderings (SpecObj) *)

\* Memory m1 is lexicographically at most m2 under ordering o.
LexLE(m1, m2, o) ==
  \/ \A k \in 1..Len(o) : m1[o[k] + 1] = m2[o[k] + 1]
  \/ \E k \in 1..Len(o) :
       /\ m1[o[k] + 1] < m2[o[k] + 1]
       /\ \A h \in 1..(k - 1) : m1[o[h] + 1] = m2[o[h] + 1]

\* The memories of mems without those equal to the one before them.
Dedup(mems) ==
  LET keep == {i \in 1..Len(mems) : i = 1 \/ mems[i] # mems[i - 1]}
      idx  == Keep([i \in 1..Len(mems) |-> i], keep)
  IN  [k \in 1..Len(idx) |-> mems[idx[k]]]

\* Every memory of ms is at most every later one under o.
Legal(ms, o) ==
  \A a \in 1..Len(ms) : \A b \in 1..Len(ms) : a < b => LexLE(ms[a], ms[b], o)

\* Location c could extend ordering o: it is not in o, it never decreases
\* from a memory of ms to a later one that o does not tell apart from it,
\* and it increases between two such memories.
Extends(ms, o, c) ==
  LET Same(a, b) == \A k \in 1..Len(o) : ms[a][o[k] + 1] = ms[b][o[k] + 1]
      pairs == {p \in (1..Len(ms)) \X (1..Len(ms)) :
                  p[1] < p[2] /\ Same(p[1], p[2])}
  IN  /\ \A k \in 1..Len(o) : o[k] # c
      /\ \A p \in pairs : ms[p[1]][c + 1] <= ms[p[2]][c + 1]
      /\ \E p \in pairs : ms[p[1]][c + 1] < ms[p[2]][c + 1]

\* C39: for every non-empty list of memories of equal length, every limit
\* and every seed, CheckOrdering never aborts EnumerateFullAll, and every
\* ordering handed to the callback is a list of distinct locations that is
\* legal (along the de-duplicated memories every memory is
\* lexicographically at most every later one, not only the next one) and
\* maximal (no location outside it could extend it).
C39_OrderingsLegalAndMaximal ==
  lastOp.op = "EnumerateFullAll"
    => /\ lastOp.ok
       /\ halted = "no"
       /\ \A k \in 1..Len(lastOp.orderings) :
            LET o  == lastOp.orderings[k]
                ms == Dedup(memories)
                n  == Len(memories[1])
            IN  /\ \A i \in 1..Len(o) : o[i] \in 0..(n - 1)
                /\ \A i \in 1..Len(o) : \A j \in 1..Len(o) :
                     i # j => o[i] # o[j]
                /\ Legal(ms, o)
                /\ \A c \in 0..(n - 1) : ~Extends(ms, o, c)

\* Three different memories of which an ordering of two locations was
\* emitted: the first location leaves two of them equal, the second
\* tells those apart.
C39_Witness ==
  /\ lastOp.op = "EnumerateFullAll"
  /\ Len(Dedup(memories)) = 3
  /\ \E k \in 1..Len(lastOp.orderings) :
       LET o == lastOp.orderings[k]
       IN  /\ Len(o) = 2
           /\ \E a \in 1..2 :
                memories[a][o[1] + 1] = memories[a + 1][o[1] + 1]

\* C40: every ordering EnumerateFullAllWithDecreasing emits from its pass
\* over the inverted memories can be told apart from an increasing
\* ordering: every location in it, location 0 included, is emitted as a
\* negative index.
C40_DecreasingIsNegative ==
  lastOp.op = "EnumerateFullAllWithDecreasing"
    => \A k \in (lastOp.val + 1)..Len(lastOp.orderings) :
         \A i \in 1..Len(lastOp.orderings[k]) :
           lastOp.orderings[k][i] < 0

----------------------------------------------------------------------------
(* Claims about the cache driven directly (SpecCache) *)

\* C2: immediately after Remember(b, s, post), GetKnown(b, s) returns a
\* state byte-equal to post, increments hits by exactly one and leaves
\* misses unchanged.
C2_RememberThenGetKnown ==
  [][(/\ lastOp.op = "Remember"
      /\ lastOp'.op = "GetKnown"
      /\ lastOp'.input = lastOp.input
      /\ lastOp'.start = lastOp.start)
     => (/\ lastOp'.found
         /\ lastOp'.result = lastOp.result
         /\ hits' = hits + 1
         /\ misses' = misses)]_vars

\* C3: after any sequence of Resize, Remember and GetKnown, count is at most
\* limit + slop, and whenever the eviction of MaybeGC has run, count is at
\* most limit when it returns.
C3_CacheBound ==
  /\ count <= limit + slop
  /\ (lastOp.gc => count <= limit)

\* The table MaybeGC is entered with by Remember(input, start, result).
TableAtGC(input, start, result) ==
  Emplace(table, <<input, start>>, [seq |-> next_seq, post |-> result])

\* K is the set of the n entries of t with the largest sequence numbers.
IsTopBySeq(t, K, n) ==
  /\ K \subseteq DOMAIN t
  /\ Cardinality(K) = n
  /\ \A k \in K : \A j \in DOMAIN t \ K : t[k].seq > t[j].seq

\* C4: whenever MaybeGC evicts, the surviving entries are exactly the limit
\* entries that had the largest sequence numbers at the moment of eviction.
C4_EvictionKeepsNewest ==
  [][(lastOp'.op = "Remember" /\ lastOp'.gc)
     => LET t == TableAtGC(lastOp'.input, lastOp'.start, lastOp'.result)
        IN  /\ IsTopBySeq(t, DOMAIN table', limit)
            /\ table' = Restrict(t, DOMAIN table')]_vars

\* C6: count equals the number of entries of the table, also after a
\* Remember whose key is already present.
C6_CountIsSize == count = Cardinality(DOMAIN table)

\* C32: after Resize(l, s) from any state of the cache the table is empty,
\* limit = l, slop = s, and every counter of the cache is zero: count,
\* next_seq, hits and misses.
C32_ResizeResetsAll ==
  lastOp.op = "Resize"
    => /\ table = EmptyTable
       /\ limit = lastOp.args[1]
       /\ slop = lastOp.args[2]
       /\ count = 0
       /\ next_seq = 0
       /\ hits = 0
       /\ misses = 0

\* The key GetKnown has just looked up.
LookedUp == <<lastOp.input, lastOp.start>>

\* C33: a GetKnown that hits stamps the entry with the next_seq current at
\* the call, which makes it the most recent entry, and increments
\* next_seq; the keys, the post-states and the number of entries stay as
\* they were.  A GetKnown that misses increments the miss counter and
\* leaves the table, count, next_seq and hits as they were.
C33_GetKnownEffect ==
  [][lastOp'.op = "GetKnown"
       => /\ lastOp'.found
               => /\ LookedUp' \in DOMAIN table
                  /\ DOMAIN table' = DOMAIN table
                  /\ \A k \in DOMAIN table :
                       /\ table'[k].post = table[k].post
                       /\ k # LookedUp' => table'[k] = table[k]
                  /\ table'[LookedUp'].seq = next_seq
                  /\ \A k \in DOMAIN table' \ {LookedUp'} :
                       table'[k].seq < table'[LookedUp'].seq
                  /\ next_seq' = next_seq + 1
                  /\ count' = count
                  /\ misses' = misses
          /\ ~lastOp'.found
               => /\ misses' = misses + 1
                  /\ UNCHANGED <<table, count, next_seq, hits>>]_vars

\* A hit on the older of two entries, which is the newer one afterwards.
C33_Witness ==
  /\ lastOp.op = "GetKnown"
  /\ lastOp.found
  /\ Cardinality(DOMAIN table) = 2
  /\ table[LookedUp].seq = next_seq - 1
  /\ \E k \in DOMAIN table : table[k].seq = 1

----------------------------------------------------------------------------
(* Claims about the frontend with its cache (SpecEF) *)

\* The serialized state Step(b) leaves when started from the serialized
\* state pre.
SerializedAfterStep(pre, b) ==
  LET c0 == RetroUnserialize(core, pre).core
  IN  SaveUncompressed(g_wrapper,
        Step(g_wrapper, c0, input_state, g_frame_rgba, g_audio_samples, b).core)

\* C1: CachingStep(b) leaves the emulator in the same serialized state as
\* Step(b) from the same pre-state, on a cache hit as on a miss.
C1_CachingStepIsStep ==
  lastOp.op = "CachingStep"
    => SaveUncompressed(g_wrapper, core)
         = SerializedAfterStep(lastOp.start, lastOp.input)

\* A CachingStep of an initialized frontend served from the cache.
C1_Witness ==
  lastOp.op = "CachingStep" /\ lastOp.found /\ g_initialized
    /\ SaveUncompressed(g_wrapper, core) # lastOp.start

\* C5: no sequence of CachingStep calls makes the cache fail, for every
\* limit and slop: the eviction never indexes the sorted sequence numbers
\* out of range.
C5_CacheNeverFails ==
  lastOp.op = "CachingStep" => (~lastOp.oob /\ halted = "no")

\* The operations of the frontend that advance or replace the emulator
\* state.
SteppingOps == {"Step", "CachingStep", "LoadUncompressed", "LoadEx"}

\* C11: while the frontend is uninitialized (never initialized, after a
\* failed Initialize, after Shutdown) Step, CachingStep, LoadUncompressed
\* and Load change no frontend state (emulator, cache contents and
\* counters, frame, audio), GetMemory and SaveUncompressed yield the empty
\* sequence, RamChecksum yields 0, and nothing aborts.
C11_UninitializedIsNoOp ==
  /\ [](~g_initialized
          => (/\ GetMemory(g_wrapper, core) = <<>>
              /\ SaveUncompressed(g_wrapper, core) = <<>>
              /\ RamChecksum(g_wrapper, core) = 0))
  /\ [][(~g_initialized /\ lastOp'.op \in SteppingOps)
         => (/\ UNCHANGED cacheVars
             /\ UNCHANGED <<g_cache, g_wrapper, g_initialized, core,
                            input_state, g_frame_rgba, g_audio_samples>>
             /\ halted' = "no")]_vars

\* C12: Shutdown leaves no wrapper, no cache, empty frame and audio
\* buffers and the initialized flag false; a second Shutdown changes
\* nothing; and the Initialize that follows a Shutdown is not rejected (it
\* gets past the already-initialized guard and succeeds exactly when the
\* core and the ROM load).
C12_ShutdownIdempotent ==
  /\ [](lastOp.op = "Shutdown"
          => (/\ ~g_wrapper /\ ~g_cache /\ ~g_initialized
              /\ GetImage(g_frame_rgba) = <<>>
              /\ GetSound(g_audio_samples) = <<>>))
  /\ [][(lastOp.op = "Shutdown" /\ lastOp'.op = "Shutdown")
         => (UNCHANGED cacheVars /\ UNCHANGED efVars)]_vars
  /\ [][(lastOp.op = "Shutdown" /\ lastOp'.op = "Initialize")
         => (/\ g_cache'
             /\ Len(lastOp'.args) = 2
             /\ lastOp'.ok = (lastOp'.args[1] /\ lastOp'.args[2])
             /\ g_initialized' = lastOp'.ok)]_vars

\* A Shutdown that directly followed a Shutdown.
C12_Witness ==
  /\ lastOp.op = "Shutdown"
  /\ lastOp.again

\* C13: Initialize on an initialized frontend returns false and leaves the
\* wrapper (core and ROM), the emulator state, the cache and the frame and
\* audio buffers unchanged.
C13_SecondInitializeRejected ==
  [][(g_initialized /\ lastOp'.op = "Initialize")
     => (/\ ~lastOp'.ok
         /\ UNCHANGED cacheVars
         /\ UNCHANGED <<g_cache, g_wrapper, g_initialized, core,
                        input_state, g_frame_rgba, g_audio_samples>>)]_vars

\* A rejected Initialize of a frontend that has cache entries, counted
\* hits and a frame.
C13_Witness ==
  /\ lastOp.op = "Initialize"
  /\ ~lastOp.ok
  /\ g_initialized
  /\ DOMAIN table # {}
  /\ hits > 0
  /\ g_frame_rgba # <<>>

\* C34: a CachingStep that hits the cache does not run the core: the frame
\* GetImage returns and the samples GetSound returns are what they were
\* before the call (and so is the input state of the wrapper), while the
\* emulator state becomes the cached post-state.
C34_HitLeavesFrameAndSound ==
  [][(lastOp'.op = "CachingStep" /\ lastOp'.found)
       => /\ GetImage(g_frame_rgba') = GetImage(g_frame_rgba)
          /\ GetSound(g_audio_samples') = GetSound(g_audio_samples)
          /\ input_state' = input_state
          /\ SaveUncompressed(g_wrapper', core') = lastOp'.result
          /\ \E k \in DOMAIN table :
               /\ k = <<lastOp'.input, SaveUncompressed(g_wrapper, core)>>
               /\ table[k].post = lastOp'.result]_vars

\* A hit that moved an initialized emulator to another state while the
\* frame of an earlier run stayed in place.
C34_Witness ==
  /\ lastOp.op = "CachingStep"
  /\ lastOp.found
  /\ g_initialized
  /\ g_frame_rgba # <<>>
  /\ SaveUncompressed(g_wrapper, core) # lastOp.start
  /\ g_frame_rgba # VideoCallback(g_frame_rgba, CoreVideo(core))

\* C35: the cache owns the payloads it allocates and releases them: in
\* every operation the payloads held by the table before it, plus those it
\* allocates, are those held by the table after it plus those it frees, so
\* that a payload leaves the table only by being freed (once) and none is
\* freed that the table does not hold; and no payload is held once
\* Shutdown has dropped the cache.
C35_PayloadsFreedOnce ==
  /\ [](~g_cache => Payloads(table) = 0)
  /\ [][Payloads(table) + lastOp'.allocated
          = Payloads(table') + lastOp'.freed]_vars

----------------------------------------------------------------------------
(* Claims about raw save/load (SpecRaw) *)

\* C8: for an initialized frontend, after SaveUncompressed produced S and
\* any number of Steps, LoadUncompressed(S) makes SaveUncompressed return S
\* again and GetMemory return the RAM present when S was taken.
C8_RawRoundTrip ==
  (/\ lastOp.op = "LoadUncompressed"
   /\ usaved.valid /\ usaved.init /\ g_initialized
   /\ lastOp.start = usaved.bytes)
    => (/\ SaveUncompressed(g_wrapper, core) = usaved.bytes
        /\ GetMemory(g_wrapper, core) = usaved.ram)

\* S was loaded back into an emulator that had moved on to another state
\* with other RAM contents.
C8_Witness ==
  /\ lastOp.op = "LoadUncompressed"
  /\ usaved.valid /\ usaved.init /\ g_initialized
  /\ lastOp.start = usaved.bytes
  /\ lastOp.result # usaved.bytes
  /\ SubSeq(lastOp.result, 1, RamLen) # usaved.ram

----------------------------------------------------------------------------
(* Claims about the frame, the sound and the input masks (SpecRaw) *)

\* Size in bytes of the canonical frame (256 * 256 * 4 in the source).
CanonicalBytes == CanonDim * CanonDim * 4

\* C16: in every state of an initialized frontend, also before the first
\* Step, GetImage returns exactly the canonical number of bytes.
C16_ImageSize ==
  g_initialized => Len(GetImage(g_frame_rgba)) = CanonicalBytes

\* C17: after a Step every pixel of the canonical frame in a row at or
\* past the height, or a column at or past the width, that the core
\* reported for this frame is (0,0,0,0).
C17_PaddingIsZero ==
  (lastOp.op = "Step" /\ g_wrapper)
    => LET fb == CoreVideo(core)
       IN  \A i \in 1..Len(GetImage(g_frame_rgba)) :
             LET d == i - 1
                 y == d \div (CanonDim * 4)
                 x == (d % (CanonDim * 4)) \div 4
             IN  (y >= fb.height \/ x >= fb.width)
                   => GetImage(g_frame_rgba)[i] = 0

\* C18: after every Step, GetSound is the mono downmix of the stereo
\* samples the core delivered during that Step's Run: half as many values
\* as were captured, and none when the core delivered none.
C18_SoundOfLastRun ==
  (lastOp.op = "Step" /\ g_wrapper)
    => (/\ GetSound(g_audio_samples) = AudioCallback(CoreAudio(core))
        /\ Len(GetSound(g_audio_samples)) = Len(CoreAudio(core)) \div 2)

\* C19: the port-1 mask is 0 in every state of the frontend, and the Run
\* of Step(b) is made with b as the port-0 mask.
C19_InputMasks ==
  /\ [](input_state[2] = 0)
  /\ [][(lastOp'.op = "Step" /\ g_wrapper)
         => (/\ input_state'[1] = lastOp'.input
             /\ core' = RetroRun(core, lastOp'.input))]_vars

\* A Step of an initialized frontend with a button pressed, after which
\* the port-0 mask differs from the port-1 mask.
C19_Witness ==
  /\ lastOp.op = "Step"
  /\ g_initialized
  /\ lastOp.input # 0
  /\ input_state[1] # input_state[2]

----------------------------------------------------------------------------
(* Claims about the wrapper driven directly (SpecWrap) *)

\* C14: a LoadCore whose shared object cannot be opened, lacks a required
\* symbol or reports another API version returns CoreLoadFailed, and
\* afterwards the wrapper holds no open shared object and no core, also
\* when a core was loaded before the call.
C14_LoadCoreFailureCloses ==
  (/\ lastOp.op = "LoadCore"
   /\ (~lastOp.args[1] \/ ~lastOp.args[2] \/ ~lastOp.args[3]))
    => (/\ lastOp.ret = "CoreLoadFailed"
        /\ dl_open[lastOp.w] = 0
        /\ ~core_handle[lastOp.w])

\* A LoadCore that opened the shared object, found the wrong API version
\* and closed it again, on a wrapper that had a core and a ROM loaded.
C14_Witness ==
  /\ lastOp.op = "LoadCore"
  /\ lastOp.args = <<TRUE, TRUE, FALSE>>
  /\ \E i \in 1..Len(lastOp.calls) : lastOp.calls[i].fn = "retro_unload_game"
  /\ \E i \in 1..Len(lastOp.calls) : lastOp.calls[i].fn = "retro_deinit"
  /\ \E i \in 1..Len(lastOp.calls) : lastOp.calls[i].fn = "retro_api_version"

\* C15: without a ROM loaded GetAVInfo is absent, GetRAMSize and
\* GetStateSize are 0, GetRAM is empty, SaveState and LoadState return
\* false, and Run and Reset make no call into the core; without a core
\* loaded GetCoreInfo is absent and LoadROM returns CoreNotLoaded and
\* changes nothing.
C15_NothingLoadedIsSafe ==
  /\ [](\A w \in Wrappers :
          /\ ~rom_loaded[w]
               => (/\ GetAVInfo(WState(w)) = "nullopt"
                   /\ WrapperGetRAMSize(WState(w)) = 0
                   /\ WrapperGetStateSize(WState(w)) = 0
                   /\ WrapperGetRAM(WState(w)) = <<>>)
          /\ ~core_handle[w] => GetCoreInfo(WState(w)) = "nullopt")
  /\ [][\A w \in Wrappers :
          /\ (~rom_loaded[w] /\ lastOp'.w = w
                /\ lastOp'.op \in {"SaveState", "LoadState"})
               => (~lastOp'.ok /\ lastOp'.calls = <<>>
                     /\ UNCHANGED wrapVars)
          /\ (~rom_loaded[w] /\ lastOp'.w = w
                /\ lastOp'.op \in {"Run", "Reset"})
               => (lastOp'.calls = <<>> /\ UNCHANGED wrapVars)
          /\ (~core_handle[w] /\ lastOp'.w = w /\ lastOp'.op = "LoadROM")
               => (lastOp'.ret = "CoreNotLoaded" /\ lastOp'.calls = <<>>
                     /\ UNCHANGED wrapVars)]_vars

\* Run was called on a wrapper that has a core but no ROM, while the other
\* wrapper has a ROM loaded and is the one the thunks point at.
C15_Witness ==
  /\ lastOp.op = "Run"
  /\ core_handle[lastOp.w]
  /\ ~rom_loaded[lastOp.w]
  /\ \E v \in Wrappers \ {lastOp.w} : rom_loaded[v] /\ g_current_impl = v

\* The calls into the core during which the core may invoke the callback
\* thunks.
CallbackCalls ==
  {"retro_set_callbacks", "retro_init", "retro_deinit", "retro_load_game",
   "retro_unload_game", "retro_reset", "retro_run", "retro_serialize",
   "retro_unserialize"}

\* C21: for every interleaving of operations on the two wrappers, each
\* call into the core that may invoke callbacks (registration of the
\* callbacks, retro_init, retro_deinit, retro_load_game, retro_unload_game,
\* retro_reset, retro_run, retro_serialize, retro_unserialize) is made
\* while g_current_impl is the Impl of the wrapper making the call.
C21_CurrentImplIsCaller ==
  \A i \in 1..Len(lastOp.calls) :
    lastOp.calls[i].fn \in CallbackCalls
      => lastOp.calls[i].cur = lastOp.calls[i].w

\* SaveState on one wrapper entered while g_current_impl still is the
\* other wrapper's Impl: retro_serialize_size is called with the stale
\* pointer, retro_serialize with the caller's.
C21_Witness ==
  /\ lastOp.op = "SaveState"
  /\ lastOp.ok
  /\ \E i \in 1..Len(lastOp.calls), j \in 1..Len(lastOp.calls) :
       /\ i < j
       /\ lastOp.calls[i].fn = "retro_serialize_size"
       /\ lastOp.calls[i].cur \in Wrappers \ {lastOp.w}
       /\ lastOp.calls[j].fn = "retro_serialize"
       /\ lastOp.calls[j].cur = lastOp.w

\* The calls into the core that need a loaded game.
GameCalls ==
  {"retro_get_system_av_info", "retro_set_controller_port_device",
   "retro_run", "retro_reset", "retro_serialize_size", "retro_serialize",
   "retro_unserialize", "retro_get_memory_data", "retro_get_memory_size"}

\* The position of a shared object in the plugin protocol after the call
\* fn is made in position p; "illegal" when the protocol does not allow
\* the call there.  ok is whether the call succeeds, for the two calls
\* that can fail: dlopen and retro_load_game.
ProtocolStep(p, fn, ok) ==
  CASE fn = "dlopen" ->
         IF p = "closed" THEN (IF ok THEN "open" ELSE "closed")
         ELSE "illegal"
    [] fn = "retro_api_version" ->
         IF p \in {"open", "registered", "inited", "game"} THEN p
         ELSE "illegal"
    [] fn = "retro_get_system_info" ->
         IF p \in {"open", "registered", "inited", "game"} THEN p
         ELSE "illegal"
    [] fn = "retro_set_callbacks" ->
         IF p = "open" THEN "registered" ELSE "illegal"
    [] fn = "retro_init" ->
         IF p = "registered" THEN "inited" ELSE "illegal"
    [] fn = "retro_load_game" ->
         IF p = "inited" THEN (IF ok THEN "game" ELSE "inited")
         ELSE "illegal"
    [] fn \in GameCalls ->
         IF p = "game" THEN p ELSE "illegal"
    [] fn = "retro_unload_game" ->
         IF p = "game" THEN "inited" ELSE "illegal"
    [] fn = "retro_deinit" ->
         IF p = "inited" THEN "deinited" ELSE "illegal"
    [] fn = "dlclose" ->
         IF p \in {"open", "deinited"} THEN "closed" ELSE "illegal"
    [] OTHER -> "illegal"

RECURSIVE ProtocolRun(_, _, _)
\* The position after the calls cs made one after the other from p.
ProtocolRun(p, cs, ok) ==
  IF cs = <<>> THEN p
  ELSE ProtocolRun(ProtocolStep(p, Head(cs).fn, ok), Tail(cs), ok)

\* Whether the dlopen of a LoadCore or the retro_load_game of a LoadROM
\* recorded in op succeeded.
CallSucceeded(op) ==
  CASE op.op = "LoadCore" -> op.args[1]
    [] op.op = "LoadROM" -> op.args[2]
    [] OTHER -> TRUE

\* The position the fields of a wrapper stand for.
ProtocolOf(handle, rom) ==
  IF ~handle THEN "closed" ELSE IF rom THEN "game" ELSE "inited"

\* C36: for every sequence of LoadCore, LoadROM, UnloadROM, UnloadCore,
\* Run, Reset, SaveState, LoadState, GetRAM and destruction on the two
\* wrappers, the calls each operation makes respect the plugin protocol
\* from the position the wrapper's fields stand for and end in the
\* position the fields stand for afterwards: callbacks are registered
\* before retro_init, retro_load_game comes only after retro_init, the
\* calls that need a game come only between an accepted retro_load_game
\* and its retro_unload_game, retro_unload_game comes before retro_deinit,
\* retro_deinit before dlclose, nothing is called in a closed shared
\* object; and a loaded ROM implies a loaded core.
C36_ProtocolOrder ==
  /\ [](\A w \in Wrappers : rom_loaded[w] => core_handle[w])
  /\ [][LET w == lastOp'.w
        IN  w \in Wrappers
              => ProtocolRun(ProtocolOf(core_handle[w], rom_loaded[w]),
                             lastOp'.calls, CallSucceeded(lastOp'))
                   = ProtocolOf(core_handle'[w], rom_loaded'[w])]_vars

\* A wrapper with a ROM loaded was destroyed: the game was unloaded, the
\* core deinitialised and the shared object closed, in that order.
C36_Witness ==
  /\ lastOp.op = "Destroy"
  /\ Len(lastOp.calls) = 3
  /\ lastOp.calls[1].fn = "retro_unload_game"
  /\ lastOp.calls[2].fn = "retro_deinit"
  /\ lastOp.calls[3].fn = "dlclose"
  /\ ~core_handle[lastOp.w]

\* C37: whenever LoadROM returns ROMLoadFailed, because the file cannot be
\* opened or because the core rejects the game, no ROM is loaded
\* afterwards; a ROM loaded before the call was unloaded
\* (retro_unload_game is the first call LoadROM made) and is not restored.
C37_FailedLoadLeavesNoROM ==
  [][(lastOp'.op = "LoadROM" /\ lastOp'.ret = "ROMLoadFailed")
       => LET w == lastOp'.w
          IN  /\ ~rom_loaded'[w]
              /\ (~lastOp'.args[1] \/ ~lastOp'.args[2])
              /\ rom_loaded[w]
                   => /\ lastOp'.calls # <<>>
                      /\ lastOp'.calls[1].fn = "retro_unload_game"
                      /\ cores'[w] = PowerOn
              /\ \A i \in 2..Len(lastOp'.calls) :
                   lastOp'.calls[i].fn # "retro_unload_game"]_vars

\* LoadROM failed on a wrapper that had a ROM loaded: the core rejected
\* the new game after the old one was unloaded.
C37_Witness ==
  /\ lastOp.op = "LoadROM"
  /\ lastOp.ret = "ROMLoadFailed"
  /\ lastOp.args = <<TRUE, FALSE>>
  /\ Len(lastOp.calls) = 2
  /\ lastOp.calls[1].fn = "retro_unload_game"
  /\ lastOp.calls[2].fn = "retro_load_game"
  /\ ~rom_loaded[lastOp.w]

----------------------------------------------------------------------------
(* Claims about the input-state callback (SpecInput) *)

\* The bit each joypad id stands for in a mask: A=1, B=2, SELECT=4,
\* START=8, UP=16, DOWN=32, LEFT=64, RIGHT=128.
ButtonBit ==
  (JOYPAD_A :> 1) @@ (JOYPAD_B :> 2) @@ (JOYPAD_SELECT :> 4)
  @@ (JOYPAD_START :> 8) @@ (JOYPAD_UP :> 16) @@ (JOYPAD_DOWN :> 32)
  @@ (JOYPAD_LEFT :> 64) @@ (JOYPAD_RIGHT :> 128)

\* Button id is pressed in mask m.
Pressed(m, id) == id \in DOMAIN ButtonBit /\ (m \div ButtonBit[id]) % 2 = 1

RECURSIVE OrOfPressed(_, _)
\* The OR of (1 << id) over the ids of S pressed in m.
OrOfPressed(m, S) ==
  IF S = {} THEN 0
  ELSE LET id == CHOOSE x \in S : TRUE
       IN  (IF Pressed(m, id) THEN 2 ^ id ELSE 0) + OrOfPressed(m, S \ {id})

\* C20: for every 8-bit mask and every id, the discrete query returns 1
\* exactly for a pressed button and 0 for any other id; the bit-mask query
\* returns the OR of (1 << id) over the pressed buttons and its bit id
\* agrees with the discrete query for id; IsPressed agrees with the
\* discrete query; a query with port >= 2, a device other than the joypad
\* or an index other than 0 returns 0.
C20_InputStateMapping ==
  /\ lastOp.op = "InputState"
       => LET port   == lastOp.args[1]
              device == lastOp.args[2]
              index  == lastOp.args[3]
              id     == lastOp.args[4]
              m      == IF port < 2 THEN input_state[port + 1] ELSE 0
              Q(i)   == InputStateCallback(g_current_impl, input_state,
                                           port, device, index, i)
          IN  IF port >= 2 \/ device # RETRO_DEVICE_JOYPAD \/ index # 0
              THEN lastOp.val = 0
              ELSE IF id = RETRO_DEVICE_ID_JOYPAD_MASK
              THEN /\ lastOp.val = OrOfPressed(m, DOMAIN ButtonBit)
                   /\ \A i \in 0..15 : (lastOp.val \div (2 ^ i)) % 2 = Q(i)
              ELSE lastOp.val = (IF Pressed(m, id) THEN 1 ELSE 0)
  /\ lastOp.op = "IsPressed"
       => \A port \in {0, 1} :
            input_state[port + 1] = lastOp.args[1]
              => lastOp.ok = (InputStateCallback(g_current_impl, input_state,
                                port, RETRO_DEVICE_JOYPAD, 0, lastOp.args[2]) = 1)

\* The bit-mask query was answered for port 1 holding a mask with A
\* pressed and B released.
C20_Witness ==
  /\ lastOp.op = "InputState"
  /\ lastOp.args = <<1, RETRO_DEVICE_JOYPAD, 0, RETRO_DEVICE_ID_JOYPAD_MASK>>
  /\ input_state[2] % 4 = 1
  /\ lastOp.val >= 256

----------------------------------------------------------------------------
(* Claims about the search program (SpecPlay) *)

\* C22: at the end of the setup and at the end of every iteration of
\* Greedy the state of the emulator is the state reached from the state
\* after Initialize by one Step per byte of the output movie, in order;
\* the movie grows only in the setup and in the commit of an iteration, by
\* exactly the bytes stepped there, so that its length is the number of
\* committed frames and no step of a look-ahead or of a rejected
\* candidate shows in it.
C22_MovieReplaysToState ==
  /\ [](pc = "loop" => SaveUncompressedE(Emu) = SaveUncompressedE(replayed))
  /\ [][/\ pc = "ctor" => replayed' = Replay(PostInitialize, movie')
        /\ pc = "commit"
             => replayed' = Replay(replayed, Appended(movie, movie'))
        /\ pc \notin {"ctor", "commit"} => replayed' = replayed]_vars
  /\ [][/\ pc \notin {"ctor", "commit"} => movie' = movie
        /\ pc = "commit"
             => movie' = movie \o motifvec[greedy.best_motif_idx + 1]]_vars

\* The end of a later iteration: several candidates were evaluated, the
\* look-ahead was served from the cache, and the movie has grown.
C22_Witness ==
  /\ pc = "loop"
  /\ greedy.framenum >= 2
  /\ Len(greedy.totals) >= 2
  /\ hits > 0
  /\ Len(movie) >= 3
  /\ SaveUncompressedE(Emu) # SaveUncompressedE(PostInitialize)

RECURSIVE LeadingZeros(_)
\* The zero bytes of s that precede its first non-zero byte.
LeadingZeros(s) ==
  IF s = <<>> \/ Head(s) # 0 THEN <<>> ELSE <<0>> \o LeadingZeros(Tail(s))

\* C23: after the setup the output movie consists of exactly the zero
\* bytes that precede the first non-zero byte of the input movie.
C23_SetupAppendsLeadingZeros ==
  lastOp.op = "PlayFun" => movie = LeadingZeros(solution)

\* C24: within an iteration of Greedy every evaluation starts from its
\* base state: a candidate motif is applied to the state saved at the
\* start of the iteration (S0), every trial of AvoidBadFutures and of
\* SeekGoodFutures starts from the candidate's post-motif state (S1), and
\* the winning motif is committed from S0.
C24_EvaluationsStartFromBase ==
  /\ lastOp.op = "Candidate" => lastOp.start = greedy.current_state
  /\ lastOp.op = "AvoidTrial" => lastOp.start = greedy.new_state
  /\ lastOp.op = "SeekTrial" => lastOp.start = greedy.new_state
  /\ lastOp.op = "Commit" => lastOp.start = greedy.current_state

\* The last seek trial of a second candidate whose motif changed the
\* state: the trial started from S1 although the trials before it and the
\* first candidate had moved the emulator away.
C24_Witness ==
  /\ lastOp.op = "SeekTrial"
  /\ lastOp.input = 2
  /\ greedy.trial = 2
  /\ lastOp.start = greedy.new_state
  /\ greedy.new_state # greedy.current_state
  /\ SaveUncompressedE(Emu) # greedy.new_state

\* C25: the two look-ahead functions of a candidate are given M0, the
\* memory snapshot of the start of the iteration, to compare the future
\* memory against.
C25_LookaheadAgainstM0 ==
  pc \in {"avoid", "seek"} => greedy.base_memory = greedy.current_memory

\* C26: the motif committed at the end of an iteration is one of the
\* candidates evaluated in the iteration, and its total is at least the
\* total of every candidate evaluated in the iteration.
C26_CommitsBestEvaluated ==
  lastOp.op = "Commit"
    => \E t \in 1..Len(greedy.totals) :
         /\ greedy.totals[t][1] = lastOp.val
         /\ \A u \in 1..Len(greedy.totals) :
              greedy.totals[u][2] <= greedy.totals[t][2]

\* C31: Greedy terminates: the final movie is eventually written, and it
\* is written after exactly NUMFRAMES iterations; every iteration commits
\* exactly one motif, whose bytes are what the movie grows by, and the
\* movie grows in no other step of Greedy.
C31_GreedyTerminates ==
  /\ <>(lastOp.op = "WriteInputs")
  /\ [](lastOp.op = "WriteInputs"
          => /\ greedy.framenum = NUMFRAMES
             /\ lastOp.args = movie)
  /\ [](greedy.framenum <= NUMFRAMES)
  /\ [][greedy'.framenum # greedy.framenum
          => /\ greedy'.framenum = greedy.framenum + 1
             /\ lastOp'.op = "Commit"
             /\ lastOp'.val \in 0..(Len(motifvec) - 1)
             /\ movie' = movie \o motifvec[lastOp'.val + 1]]_vars
  /\ [][(pc # "ctor" /\ greedy'.framenum = greedy.framenum)
          => movie' = movie]_vars

\* The final movie has been written, and it holds motifs committed by
\* Greedy after the bytes of the setup.
C31_Witness ==
  /\ lastOp.op = "WriteInputs"
  /\ pc = "done"
  /\ greedy.framenum = NUMFRAMES
  /\ Len(movie) > Len(solution)

----------------------------------------------------------------------------
(* Claims about the selection of the motifs (SpecSelect) *)

\* The set of the elements of a sequence.
Range(s) == {s[k] : k \in 1..Len(s)}

\* The selection just returned.
Selected == lastOp.args

\* C27: SelectMotifsToTry returns a list of valid motif indices without
\* duplicates; while motif_uses < 100 the list is a permutation of all n
\* indices; otherwise it holds n div 2 indices that form a top half by
\* average (each of them has an average at least that of every index
\* outside the half), and beyond them only indices of the rest.
C27_SelectionShape ==
  lastOp.op = "SelectMotifsToTry"
    => LET n == Len(motifvec)
       IN  /\ Range(Selected) \subseteq 0..(n - 1)
           /\ Cardinality(Range(Selected)) = Len(Selected)
           /\ motif_uses < EarlyUses => Range(Selected) = 0..(n - 1)
           /\ ~(motif_uses < EarlyUses)
                => \E H \in SUBSET Range(Selected) :
                     /\ Cardinality(H) = n \div 2
                     /\ \A h \in H : \A j \in (0..(n - 1)) \ H :
                          motif_scores[h + 1] >= motif_scores[j + 1]

\* C38: whenever the motif bank is not empty, SelectMotifsToTry returns at
\* least one index, whatever motif_uses is and whatever bytes the random
\* stream yields.
C38_SelectionNotEmpty ==
  (lastOp.op = "SelectMotifsToTry" /\ motifvec # <<>>) => Selected # <<>>

\* A selection after the early phase from a bank of three motifs of
\* different averages: the best one, and one of the other two.
C27_Witness ==
  /\ lastOp.op = "SelectMotifsToTry"
  /\ ~(motif_uses < EarlyUses)
  /\ Len(motifvec) = 3
  /\ Cardinality(Range(motif_scores)) = 3
  /\ Len(Selected) = 2

----------------------------------------------------------------------------
(* Claims about the tracking of the future scores (SpecAdapt) *)

\* The last k elements of a sequence.
LastOf(s, k) == SubSeq(s, Len(s) - k + 1, Len(s))

\* The depths that go with a history of at least half the size, by its
\* mean: below 0.3, above 0.7, or anything else.
DepthsFor(w) ==
  IF 10 * SumSeq(w) < 3 * ScoreUnit * Len(w)
  THEN <<AvoidShort, SeekShort>>
  ELSE IF 10 * SumSeq(w) > 7 * ScoreUnit * Len(w)
  THEN <<AvoidLong, SeekLong>>
  ELSE <<AvoidDefault, SeekDefault>>

\* C28: the rolling history never holds more than HISTORY_SIZE values, and
\* after a best_future is recorded it holds the most recent ones; the depths
\* are left unchanged while the history has fewer than half of HISTORY_SIZE
\* values, and are otherwise the depths that go with the mean of the
\* history (short below 0.3, long above 0.7, default for any other mean),
\* whatever the depths were before.
C28_DepthsFollowWindow ==
  /\ [](Len(recent_futures) <= HISTORY_SIZE)
  /\ [][lastOp'.op = "TrackFuture"
          => LET all == Append(recent_futures, lastOp'.val)
                 w   == recent_futures'
             IN  /\ w = LastOf(all, Min(HISTORY_SIZE, Len(all)))
                 /\ Len(w) < HISTORY_SIZE \div 2
                      => /\ avoid_depths' = avoid_depths
                         /\ seek_depths' = seek_depths
                 /\ ~(Len(w) < HISTORY_SIZE \div 2)
                      => <<avoid_depths', seek_depths'>> = DepthsFor(w)]_vars

\* A full history whose mean is exactly 0.3 after a value replaced the
\* oldest one, with the default depths.
C28_Witness ==
  /\ lastOp.op = "TrackFuture"
  /\ Len(recent_futures) = HISTORY_SIZE
  /\ greedy.framenum = 2
  /\ 10 * SumSeq(recent_futures) = 3 * ScoreUnit * HISTORY_SIZE
  /\ avoid_depths = AvoidDefault
  /\ seek_depths = SeekDefault

----------------------------------------------------------------------------
(* Claims about the look-ahead functions (SpecFuture) *)

RECURSIVE MotifBytes(_, _)
\* The bytes of the motifs picks of the bank, in order.
MotifBytes(bank, picks) ==
  IF picks = <<>> THEN <<>>
  ELSE bank[Head(picks) + 1] \o MotifBytes(bank, Tail(picks))

\* The memory after the bytes are stepped through from the serialized
\* state start.
RolledMemory(start, bytes) ==
  GetMemoryE(Replay(LoadUncompressedE(PostInitialize, start), bytes))

\* The scores of the memory after each of the bytes against base_memory,
\* stepping from the serialized state start.
StepScores(o, base_memory, start, bytes) ==
  [k \in 1..Len(bytes) |->
     ScoreChange(o, base_memory, RolledMemory(start, SubSeq(bytes, 1, k)))]

\* The least and the greatest element of a non-empty sequence of scores.
MinOf(s) == CHOOSE m \in Range(s) : \A v \in Range(s) : m <= v
MaxOf(s) == CHOOSE m \in Range(s) : \A v \in Range(s) : m >= v

\* The scores after every step of both trials of the AvoidBadFutures call
\* just returned.
AvoidStepScores ==
  StepScores(objectives, greedy.base_memory, lastOp.start,
             MotifBytes(motifvec, lastOp.calls[1]))
  \o StepScores(objectives, greedy.base_memory, lastOp.start,
                MotifBytes(motifvec, lastOp.calls[2]))

\* C29: whenever at least one step is taken, AvoidBadFutures returns the
\* minimum of the scores taken after every step of both trials, whatever
\* the lengths of the motifs rolled out (the initial value 1.0 of the total
\* has no influence).
C29_AvoidReturnsMinimum ==
  (lastOp.op = "AvoidBadFutures" /\ AvoidStepScores # <<>>)
    => lastOp.val = MinOf(AvoidStepScores)

\* The scores of the memory at the end of each trial of the
\* SeekGoodFutures call just returned.
SeekFinalScores ==
  [i \in 1..Len(seek_depths) |->
     ScoreChange(objectives, greedy.base_memory,
                 RolledMemory(lastOp.start,
                              MotifBytes(motifvec, lastOp.calls[i])))]

\* C30: SeekGoodFutures takes one score per trial, of the memory at the end
\* of the trial, and returns the maximum of the three (the initial value
\* 1.0 of the total has no influence).
C30_SeekReturnsMaximum ==
  lastOp.op = "SeekGoodFutures"
    => /\ lastOp.args = SeekFinalScores
       /\ lastOp.val = MaxOf(SeekFinalScores)

\* A call of SeekGoodFutures whose three scores are not all the same and
\* all lie below the initial value of the total.
C30_Witness ==
  /\ lastOp.op = "SeekGoodFutures"
  /\ Cardinality(Range(lastOp.args)) > 1
  /\ lastOp.val < Placeholder
  /\ \E i \in 1..Len(seek_depths) : MotifBytes(motifvec, lastOp.calls[i]) # <<>>

----------------------------------------------------------------------------
(* Claims about compressed save/load (SpecIO) *)

\* C7: LoadEx(SaveEx(s, B), B) restores s for a basis that is absent,
\* shorter than, as long as or longer than the raw state.
C7_SaveExLoadExRoundTrip ==
  (/\ lastOp.op = "LoadEx"
   /\ saved.valid /\ saved.init /\ g_initialized
   /\ lastOp.start = saved.blob
   /\ lastOp.basis = saved.basis)
    => (/\ halted = "no"
        /\ SaveUncompressed(g_wrapper, core) = saved.state)

\* A blob made with a basis longer than the state, whose subtraction
\* wrapped, was loaded back into an emulator in another state.
C7_Witness ==
  /\ lastOp.op = "LoadEx"
  /\ saved.valid /\ saved.init /\ g_initialized
  /\ lastOp.start = saved.blob
  /\ lastOp.basis = saved.basis
  /\ saved.basis.has
  /\ Len(saved.basis.bytes) > Len(saved.state)
  /\ \E i \in 1..Len(saved.state) : saved.state[i] < saved.basis.bytes[i]
  /\ lastOp.result # saved.state

\* C9: Load and LoadEx with an input of fewer than 4 bytes return without
\* error and leave the emulator state, the cache and the frame and audio
\* buffers unchanged.
C9_ShortLoadIsNoOp ==
  [][(lastOp'.op = "LoadEx" /\ Len(lastOp'.start) < 4)
     => (/\ halted' = "no"
         /\ core' = core
         /\ UNCHANGED cacheVars
         /\ UNCHANGED <<g_cache, g_wrapper, g_initialized>>
         /\ g_frame_rgba' = g_frame_rgba
         /\ g_audio_samples' = g_audio_samples)]_vars

\* A 3-byte input was handed to LoadEx of an initialized frontend that has
\* a frame, audio and a non-empty cache.
C9_Witness ==
  /\ lastOp.op = "LoadEx"
  /\ Len(lastOp.start) = 3
  /\ g_initialized
  /\ DOMAIN table # {}
  /\ g_frame_rgba # <<>>
  /\ g_audio_samples # <<>>

\* C10: a failing deflate in SaveEx and a failing inflate in LoadEx abort
\* the process; in LoadEx the abort comes before LoadUncompressed, so the
\* emulator state is the one from before the call.
C10_CodecFailureAborts ==
  /\ (lastOp.op = "SaveEx" /\ ~lastOp.ok) => halted = "abort"
  /\ (lastOp.op = "LoadEx" /\ ~lastOp.ok)
       => (/\ halted = "abort"
           /\ ~lastOp.loaded
           /\ SaveUncompressed(g_wrapper, core) = lastOp.result)

\* LoadEx of an initialized frontend was given a payload that does not
\* inflate.
C10_Witness ==
  /\ lastOp.op = "LoadEx"
  /\ ~lastOp.ok
  /\ g_initialized
  /\ halted = "abort"

====
